---- MODULE Spec2Model ----
(***************************************************************************)
(* Media-asset pipeline of my_agent/tools: image_handling.py (image_ops)   *)
(* and video_handling.py (video_ops), modelled as a state machine.         *)
(*                                                                         *)
(* A caller makes one synchronous call.  video_ops is modelled step by     *)
(* step (source resolution, temp file, probe, frame read, cleanup) because *)
(* its claims are about what is on backing storage at each exit path;      *)
(* image_ops has no resources and is modelled as resolve + one step per    *)
(* operation, with the library calls it makes recorded in `effects`.       *)
(* Functions of the two modules that a claim is about on their own        *)
(* (thumbnail_set, _fetch_bytes_from_url) can also be called directly,     *)
(* with arguments video_ops and image_ops never pass; their loops are      *)
(* modelled turn by turn.  ConcSpec runs two video_ops calls interleaved.  *)
(*                                                                         *)
(* Units: durations are in tenths of a second, megapixel ceilings in       *)
(* hundredths of a megapixel (so 1.0 MP is 100), so that every comparison  *)
(* the code makes on floats is made here on exact integers.                *)
(***************************************************************************)
EXTENDS Integers, Sequences, FiniteSets, TLC

VARIABLES
    env,      \* capabilities fixed at import time and by the host
    fs,       \* backing storage: file name -> content
    vcall,    \* call id -> state of that video_ops call
    icall,    \* state of the image_ops call
    lib       \* state of a direct call of a function of the two modules

vars == <<env, fs, vcall, icall, lib>>

(***************************************************************************)
(* Optional values: Python's None and a present value.                     *)
(***************************************************************************)
None == <<>>
Some(v) == <<v>>
Val(x) == x[1]

(***************************************************************************)
(* Bounds of the model.                                                    *)
(***************************************************************************)
\* number of names the temp directory can hand out
NumTemp == 2
\* crop/resize targets range over -1 .. MaxTarget
MaxTarget == 4

TempNames == {<<"tmp", i, "mp4">> : i \in 1..NumTemp}

(***************************************************************************)
(* Video payloads.  A payload is a byte string, named by what it holds.    *)
(***************************************************************************)
VideoBytes == {"clipA", "clipB", "clipS", "junk"}
\* clipA: decodable 640x480, 3.0 s; clipB: decodable 1920x1080, 120.0 s;
\* clipS: decodable 320x240, 0.3 s; junk: not a video.
VDecodable(p) == p \in {"clipA", "clipB", "clipS"}
VWidth(p) == CASE p = "clipA" -> 640 [] p = "clipB" -> 1920 [] OTHER -> 320
VHeight(p) == CASE p = "clipA" -> 480 [] p = "clipB" -> 1080 [] OTHER -> 240
VDuration(p) == CASE p = "clipA" -> 30 [] p = "clipB" -> 1200 [] OTHER -> 3
VFps(p) == CASE p = "clipA" -> 30 [] p = "clipB" -> 25 [] OTHER -> 24
\* len(data)
Len8(p) == CASE p = "clipA" -> 4000 [] p = "clipB" -> 9000 [] p = "clipS" -> 700
             [] p = "junk" -> 12 [] OTHER -> 0

\* hashlib.md5(b).hexdigest(): one digest per byte string
Md5Bytes(p) == <<"md5", p>>

\* os.path.splitext(name)[1].lstrip('.') or None
ExtOf(name) == IF name[3] = "" THEN None ELSE Some(name[3])

(***************************************************************************)
(* Strings a caller can pass as video_b64 / image_b64.                     *)
(*   <<"b64", p>>          base64 text of payload p                        *)
(*   <<"data:", "b64", p>> the same behind a data-URL prefix               *)
(*   <<"b64!">>            text that is not valid base64                   *)
(*   <<>> is None, <<"">> the empty string                                 *)
(***************************************************************************)
EmptyStr == <<"">>
\* Python truthiness of an optional string
Truthy(s) == s # None /\ s # EmptyStr
\* s.startswith("data:")
StartsWithData(s) == s[1] = "data:"
\* s.split(",", 1)[1]
AfterComma(s) == Tail(s)
\* base64.b64decode: the payload, or (a one-element tuple) the error
B64Valid(s) == Len(s) = 2 /\ s[1] = "b64"
B64Decode(s) == s[2]


(***************************************************************************)
(* Host and import-time capabilities.                                      *)
(***************************************************************************)
\* video_handling.py: _HAS_MOVIEPY, Image is not None; ffprobe on the PATH;
\* image_handling.py: _HAS_TESS
Envs == [moviepy : BOOLEAN, pillow : BOOLEAN, ffprobe : BOOLEAN, tess : BOOLEAN]

\* files the user has on storage before the call: name -> content
UserVideo == <<"user", 1, "mp4">>
UserJunk == <<"user", 2, "mkv">>
UserImage == <<"user", 3, "png">>
MissingPath == <<"user", 9, "mp4">>
InitFs == (UserVideo :> "clipA") @@ (UserJunk :> "junk") @@ (UserImage :> "png500")

Exists(f) == f \in DOMAIN fs
Content(f) == IF Exists(f) THEN fs[f] ELSE "absent"
Unlink(f) == [g \in DOMAIN fs \ {f} |-> fs[g]]
WriteFile(f, p) == [g \in DOMAIN fs \cup {f} |-> IF g = f THEN p ELSE fs[g]]

(***************************************************************************)
(* Remote URLs: what urlopen and the chunked read end with.                *)
(***************************************************************************)
\* line 26: the default of max_bytes; line 40: the size asked of each read
DefaultMaxBytes == 50000000
ChunkSize == 16384

Urls == {"u_clipA", "u_junk", "u_big", "u_404"}
\* what is behind a URL: how urlopen ends, the length of the body in bytes and,
\* for a connection that breaks, the offset at which it does
RemoteUrls == Urls \cup {"u_exact", "u_down", "u_mid", "u_mid1", "u_two", "u_empty",
                         "u_cut"}
RemoteStatus(u) == CASE u = "u_404" -> "http_error" [] u = "u_down" -> "url_error"
                     [] OTHER -> "ok"
RemoteLen(u) == CASE u = "u_clipA" -> 4000 [] u = "u_junk" -> 12
                  [] u = "u_big" -> DefaultMaxBytes + 1
                  [] u = "u_exact" -> DefaultMaxBytes
                  [] u = "u_mid" -> 40000 [] u = "u_mid1" -> 40001
                  [] u = "u_two" -> 2 * ChunkSize
                  [] u = "u_cut" -> 40000
                  [] OTHER -> 0
RemoteCut(u) == IF u = "u_cut" THEN Some(20000) ELSE None
\* _fetch_bytes_from_url: the bytes, or the ValueError it raises
FetchOk(u) == u \in {"u_clipA", "u_junk"}
FetchBytes(u) == IF u = "u_clipA" THEN "clipA" ELSE "junk"
FetchError(u) == IF u = "u_big" THEN "TransferTooLarge" ELSE "TransferFailed"

(***************************************************************************)
(* video_ops: the state of one call.                                       *)
(***************************************************************************)
NoInfo == [width |-> None, height |-> None, duration |-> None, fps |-> None,
           format |-> None, size_bytes |-> 0, md5 |-> None,
           thumbnail_data_url |-> None]

VIdle == [pc |-> "idle", operation |-> "", video_b64 |-> None, video_url |-> None,
          path |-> None, max_duration |-> None, max_megapixels |-> None,
          data |-> None, file_path |-> None, tmp |-> None, tmp_for |-> "",
          info |-> NoInfo, clip |-> "none", exc |-> "", pending |-> None,
          created |-> {}, attempts |-> <<>>, effects |-> {}, probe |-> None,
          kind |-> "", error |-> "", ret |-> None]

VideoOperations == {"inspect", "validate", "thumbnails", "extract_frame"}
VOperationArgs == VideoOperations \cup {"transcode"}
VB64Args == {None, EmptyStr, <<"b64!">>, <<"data:", "b64", "clipA">>}
              \cup {<<"b64", p>> : p \in {"clipA", "clipB", "clipS", "junk"}}

Raise(s, err) == [s EXCEPT !.pc = "done", !.kind = "raise", !.error = err]
Return(s, v) == [s EXCEPT !.pc = "done", !.kind = "return", !.ret = v]

\* the caller invokes video_ops(operation, video_b64, video_url, path, ...)
VCall(c) ==
    /\ vcall[c].pc = "idle"
    /\ \E o \in VOperationArgs, b \in VB64Args,
          u \in {None} \cup {Some(x) : x \in Urls},
          p \in {None, UserVideo, UserJunk, MissingPath} :
       \* max_duration in tenths of a second, max_megapixels in hundredths
       \E md \in (IF o = "validate" THEN {None, Some(30), Some(100)} ELSE {None}),
          mm \in (IF o = "validate" THEN {None, Some(30), Some(208)} ELSE {None}) :
            vcall' = [vcall EXCEPT ![c] =
                        [VIdle EXCEPT !.pc = "v_resolve", !.operation = o,
                                      !.video_b64 = b, !.video_url = u, !.path = p,
                                      !.max_duration = md, !.max_megapixels = mm]]
    /\ UNCHANGED <<env, fs, icall, lib>>

\* the byte-source resolution with video_url tried before video_b64
VResolveUrlFirst(c) ==
    LET s == vcall[c]
        url == IF s.video_url = None THEN "" ELSE Val(s.video_url)
        b64 == IF StartsWithData(s.video_b64) THEN AfterComma(s.video_b64)
                                              ELSE s.video_b64
    IN
    /\ s.pc = "v_resolve"
    /\ vcall' = [vcall EXCEPT ![c] =
         IF ~(Truthy(s.video_b64) \/ s.video_url # None \/ Truthy(s.path))
         THEN Raise(s, "InvalidInput")
         ELSE IF s.video_url # None
         THEN IF FetchOk(url)
              THEN [s EXCEPT !.pc = "v_dispatch", !.data = Some(FetchBytes(url)),
                             !.effects = @ \cup {"fetch"}]
              ELSE Raise([s EXCEPT !.effects = @ \cup {"fetch"}], FetchError(url))
         ELSE IF Truthy(s.video_b64)
         THEN IF B64Valid(b64)
              THEN [s EXCEPT !.pc = "v_dispatch", !.data = Some(B64Decode(b64)),
                             !.effects = @ \cup {"b64decode"}]
              ELSE Raise([s EXCEPT !.effects = @ \cup {"b64decode"}], "DecodeError")
         ELSE [s EXCEPT !.pc = "v_dispatch"]]
    /\ UNCHANGED <<env, fs, icall, lib>>

\* video_ops lines 198-207: the source check and the byte-source resolution
VResolve(c) ==
    LET s == vcall[c]
        url == IF s.video_url = None THEN "" ELSE Val(s.video_url)
        b64 == IF StartsWithData(s.video_b64) THEN AfterComma(s.video_b64)
                                              ELSE s.video_b64
    IN
    /\ s.pc = "v_resolve"
    /\ vcall' = [vcall EXCEPT ![c] =
         IF ~(Truthy(s.video_b64) \/ s.video_url # None \/ Truthy(s.path))
         THEN Raise(s, "InvalidInput")
         ELSE IF Truthy(s.video_b64)
         THEN IF B64Valid(b64)
              THEN [s EXCEPT !.pc = "v_dispatch", !.data = Some(B64Decode(b64)),
                             !.effects = @ \cup {"b64decode"}]
              ELSE Raise([s EXCEPT !.effects = @ \cup {"b64decode"}], "DecodeError")
         ELSE IF s.video_url # None
         THEN IF FetchOk(url)
              THEN [s EXCEPT !.pc = "v_dispatch", !.data = Some(FetchBytes(url)),
                             !.effects = @ \cup {"fetch"}]
              ELSE Raise([s EXCEPT !.effects = @ \cup {"fetch"}], FetchError(url))
         ELSE [s EXCEPT !.pc = "v_dispatch"]]
    /\ UNCHANGED <<env, fs, icall, lib>>

VDispatchSilent(c) ==
    LET s == vcall[c] IN
    /\ s.pc = "v_dispatch"
    /\ vcall' = [vcall EXCEPT ![c] =
         IF s.operation \in {"inspect", "validate", "thumbnails"}
         THEN [s EXCEPT !.pc = "insp_src"]
         ELSE IF s.operation = "extract_frame"
         THEN [s EXCEPT !.pc = "ef_src"]
         ELSE Return(s, None)]
    /\ UNCHANGED <<env, fs, icall, lib>>

\* video_ops lines 209-252: the if/elif chain on operation
VDispatch(c) ==
    LET s == vcall[c] IN
    /\ s.pc = "v_dispatch"
    /\ vcall' = [vcall EXCEPT ![c] =
         IF s.operation \in {"inspect", "validate", "thumbnails"}
         THEN [s EXCEPT !.pc = "insp_src"]
         ELSE IF s.operation = "extract_frame"
         THEN [s EXCEPT !.pc = "ef_src"]
         ELSE Raise(s, "UnknownOperation")]
    /\ UNCHANGED <<env, fs, icall, lib>>


(***************************************************************************)
(* _write_temp_file, in two steps: NamedTemporaryFile(delete=False) puts   *)
(* an empty file of a fresh name on storage; write/flush then either       *)
(* completes, and the name is returned, or raises (storage full, I/O       *)
(* error), and the finally clause only closes the handle.                  *)
(***************************************************************************)
\* the temp file created under a fixed name
TmpCreateFixedName(c) ==
    LET s == vcall[c]
        n == <<"tmp", 1, "mp4">>
    IN
    /\ s.pc = "tmp_create"
    /\ fs' = WriteFile(n, "")
    /\ vcall' = [vcall EXCEPT ![c] =
                   [s EXCEPT !.pc = "tmp_write", !.tmp = Some(n),
                             !.created = @ \cup {n},
                             !.effects = @ \cup {"tempfile"}]]
    /\ UNCHANGED <<env, icall, lib>>

TmpCreate(c) ==
    LET s == vcall[c] IN
    /\ s.pc = "tmp_create"
    /\ \E n \in TempNames \ DOMAIN fs :
         /\ fs' = WriteFile(n, "")
         /\ vcall' = [vcall EXCEPT ![c] =
                        [s EXCEPT !.pc = "tmp_write", !.tmp = Some(n),
                                  !.created = @ \cup {n},
                                  !.effects = @ \cup {"tempfile"}]]
    /\ UNCHANGED <<env, icall, lib>>

TmpWriteOk(c) ==
    LET s == vcall[c] IN
    /\ s.pc = "tmp_write"
    /\ fs' = WriteFile(Val(s.tmp), Val(s.data))
    /\ vcall' = [vcall EXCEPT ![c] =
                   [s EXCEPT !.pc = IF s.tmp_for = "insp" THEN "insp_try" ELSE "ef_try",
                             !.file_path = Val(s.tmp)]]
    /\ UNCHANGED <<env, icall, lib>>

\* f.write or f.flush raises: the exception leaves _write_temp_file and, from
\* lines 102 and 229, the caller, both outside any try
TmpWriteFails(c) ==
    LET s == vcall[c] IN
    /\ s.pc = "tmp_write"
    /\ fs' = WriteFile(Val(s.tmp), "partial")
    /\ vcall' = [vcall EXCEPT ![c] = Raise(s, "OSError")]
    /\ UNCHANGED <<env, icall, lib>>

(***************************************************************************)
(* inspect_video_source                                                    *)
(***************************************************************************)
\* lines 99-120; video_ops always passes data or a path, so the final
\* ValueError is reached only by a direct caller that passes neither
InspSource(c) ==
    LET s == vcall[c] IN
    /\ s.pc = "insp_src"
    /\ vcall' = [vcall EXCEPT ![c] =
         IF s.data # None
         THEN [s EXCEPT !.pc = "tmp_create", !.tmp_for = "insp",
                        !.info = [NoInfo EXCEPT !.size_bytes = Len8(Val(s.data)),
                                                !.md5 = Some(Md5Bytes(Val(s.data)))]]
         ELSE IF s.path # None
         THEN IF Exists(s.path)
              THEN [s EXCEPT !.pc = "insp_try", !.file_path = s.path,
                             !.effects = @ \cup {"read_path"},
                             !.info = [NoInfo EXCEPT !.size_bytes = Len8(fs[s.path]),
                                                     !.md5 = Some(Md5Bytes(fs[s.path]))]]
              ELSE Raise(s, "FileNotFoundError")
         ELSE Raise(s, "InvalidInput")]
    /\ UNCHANGED <<env, fs, icall, lib>>

\* clip.w, clip.h, clip.duration, clip.fps of an opened clip, each None if falsy
ClipInfo(f) ==
    LET p == Content(f) IN
    [width |-> Some(VWidth(p)), height |-> Some(VHeight(p)),
     duration |-> Some(VDuration(p)), fps |-> Some(VFps(p)), format |-> ExtOf(f)]

\* t = 0.5 if (clip.duration and clip.duration > 0.5) else 0, in tenths of a second
FrameTime(f) == IF VDuration(Content(f)) > 5 THEN 5 ELSE 0

\* _frame_to_data_url(frame, "PNG")
FrameToDataUrl(f) == <<"data:image/png", Content(f), FrameTime(f)>>

\* lines 123-131: mpy.VideoFileClip(file_path) and info.update
InspOpen(c) ==
    LET s == vcall[c]
        f == s.file_path
        ci == ClipInfo(f)
    IN
    /\ s.pc = "insp_try"
    /\ env.moviepy
    /\ vcall' = [vcall EXCEPT ![c] =
         IF VDecodable(Content(f))
         THEN [s EXCEPT !.pc = "insp_frame", !.clip = "open",
                        !.attempts = Append(@, "moviepy"),
                        !.info = [@ EXCEPT !.width = ci.width, !.height = ci.height,
                                           !.duration = ci.duration, !.fps = ci.fps,
                                           !.format = ci.format]]
         ELSE [s EXCEPT !.pc = "insp_finally", !.exc = "OSError",
                        !.attempts = Append(@, "moviepy")]]
    /\ UNCHANGED <<env, fs, icall, lib>>

\* the frame read and its encoding with the exception let through
InspFrameRaises(c) ==
    LET s == vcall[c] IN
    /\ s.pc = "insp_frame"
    /\ \E readOk \in BOOLEAN :
         vcall' = [vcall EXCEPT ![c] =
           IF readOk /\ env.pillow
           THEN [s EXCEPT !.pc = "insp_close",
                          !.info = [@ EXCEPT !.thumbnail_data_url =
                                               Some(FrameToDataUrl(s.file_path))]]
           ELSE [s EXCEPT !.pc = "insp_finally",
                          !.exc = IF readOk THEN "RuntimeError" ELSE "OSError"]]
    /\ UNCHANGED <<env, fs, icall, lib>>

\* lines 133-138: the frame read and its encoding, any exception swallowed
InspFrame(c) ==
    LET s == vcall[c] IN
    /\ s.pc = "insp_frame"
    /\ \E readOk \in BOOLEAN :
         vcall' = [vcall EXCEPT ![c] =
           IF readOk /\ env.pillow
           THEN [s EXCEPT !.pc = "insp_close",
                          !.info = [@ EXCEPT !.thumbnail_data_url =
                                               Some(FrameToDataUrl(s.file_path))]]
           ELSE [s EXCEPT !.pc = "insp_close"]]
    /\ UNCHANGED <<env, fs, icall, lib>>

\* lines 139-141
InspClose(c) ==
    LET s == vcall[c] IN
    /\ s.pc = "insp_close"
    /\ vcall' = [vcall EXCEPT ![c] = [s EXCEPT !.pc = "insp_finally", !.clip = "closed"]]
    /\ UNCHANGED <<env, fs, icall, lib>>

(***************************************************************************)
(* The ffprobe branch, lines 143-175.  What the subprocess prints is an    *)
(* input: the exit status, whether the text is JSON, and the entries of    *)
(* the streams it lists.  A piece of text that should spell a number is    *)
(* [ok, val]: whether float() accepts it, and the number.                  *)
(***************************************************************************)
Num(n) == [ok |-> TRUE, val |-> n]
NotANumber == [ok |-> FALSE, val |-> 0]
\* stream entries: width and height are JSON numbers, duration a string,
\* r_frame_rate a string given by its parts between "/", codec_name a string;
\* None is a key the stream does not have
FullStream(p) == [width |-> Some(VWidth(p)), height |-> Some(VHeight(p)),
                  duration |-> Some(Num(VDuration(p))),
                  r_frame_rate |-> Some(<<Num(VFps(p)), Num(1)>>),
                  codec_name |-> Some("h264")]
ProbeFailed == [exit |-> 1, json |-> FALSE, streams |-> <<>>]
ProbeText(streams) == [exit |-> 0, json |-> TRUE, streams |-> streams]
\* what ffprobe may print for a file of content p
ProbeOutputs(p) ==
    LET full == FullStream(p) IN
    CASE p = "clipA" -> {ProbeText(<<full>>)}
      [] p = "clipB" ->
           {ProbeText(<<full>>),
            ProbeText(<<[full EXCEPT !.duration = None]>>),
            ProbeText(<<[full EXCEPT !.duration = Some(NotANumber)]>>),
            ProbeText(<<[full EXCEPT !.width = None, !.height = None]>>),
            ProbeText(<<[full EXCEPT !.width = Some(0), !.height = Some(0)]>>),
            [exit |-> 0, json |-> FALSE, streams |-> <<>>]}
      [] p = "clipS" ->
           {ProbeText(<<full>>),
            ProbeText(<<[full EXCEPT !.r_frame_rate = None]>>),
            ProbeText(<<[full EXCEPT !.r_frame_rate = Some(<<Num(VFps(p))>>)]>>),
            ProbeText(<<[full EXCEPT !.r_frame_rate = Some(<<Num(0), Num(0)>>)]>>),
            ProbeText(<<[full EXCEPT !.r_frame_rate = Some(<<Num(VFps(p)), NotANumber>>)]>>),
            ProbeText(<<[full EXCEPT !.r_frame_rate =
                                       Some(<<Num(VFps(p)), Num(1), Num(1)>>)]>>),
            ProbeText(<<>>)}
      [] OTHER -> {ProbeFailed}

\* lines 159-165: fps from r_frame_rate.  "raise" is an exception that leaves
\* the statement (the unpacking of line 161 is outside the inner try);
\* float(num) / float(den) is exact for the rates of the model (den = 1)
ProbeFps(stream) ==
    LET r == stream.r_frame_rate IN
    IF r = None \/ Len(Val(r)) < 2 THEN [kind |-> "value", fps |-> None]
    ELSE IF Len(Val(r)) # 2 THEN [kind |-> "raise", fps |-> None]
    ELSE LET num == Val(r)[1]  den == Val(r)[2] IN
         IF ~num.ok \/ ~den.ok \/ den.val = 0 THEN [kind |-> "value", fps |-> None]
         ELSE [kind |-> "value", fps |-> Some(num.val \div den.val)]

\* lines 150-172: the fields info.update receives, or None when an exception
\* reaches the except clause of line 173 first
ProbeUpdate(out) ==
    IF out.exit # 0 \/ ~out.json THEN None
    ELSE LET stream == IF Len(out.streams) > 0 THEN out.streams[1]
                       ELSE [width |-> None, height |-> None, duration |-> None,
                             r_frame_rate |-> None, codec_name |-> None]
             f == ProbeFps(stream)
         IN
         IF stream.duration # None /\ ~Val(stream.duration).ok THEN None
         ELSE IF f.kind = "raise" THEN None
         ELSE Some([width |-> stream.width, height |-> stream.height,
                    duration |-> IF stream.duration = None THEN None
                                 ELSE Some(Val(stream.duration).val),
                    fps |-> f.fps, format |-> stream.codec_name])

\* lines 143-175: the ffprobe subprocess, any exception swallowed
InspFfprobe(c) ==
    LET s == vcall[c]
        p == Content(s.file_path)
    IN
    /\ s.pc = "insp_try"
    /\ ~env.moviepy
    /\ \E out \in (IF env.ffprobe THEN ProbeOutputs(p) ELSE {ProbeFailed}) :
         LET u == ProbeUpdate(out) IN
         vcall' = [vcall EXCEPT ![c] =
           IF u # None
           THEN [s EXCEPT !.pc = "insp_finally",
                          !.attempts = Append(@, "ffprobe"), !.probe = Some(out),
                          !.info = [@ EXCEPT !.width = Val(u).width,
                                             !.height = Val(u).height,
                                             !.duration = Val(u).duration,
                                             !.fps = Val(u).fps,
                                             !.format = Val(u).format]]
           ELSE [s EXCEPT !.pc = "insp_finally", !.attempts = Append(@, "ffprobe"),
                          !.probe = Some(out)]]
    /\ UNCHANGED <<env, fs, icall, lib>>

\* the finally clause without the test on data
InspFinallyAlways(c) ==
    LET s == vcall[c]
        del == Exists(s.file_path)
    IN
    /\ s.pc = "insp_finally"
    /\ fs' = IF del THEN Unlink(s.file_path) ELSE fs
    /\ vcall' = [vcall EXCEPT ![c] =
         IF s.exc # "" THEN Raise(s, s.exc) ELSE [s EXCEPT !.pc = "v_after_insp"]]
    /\ UNCHANGED <<env, icall, lib>>

\* lines 176-183: the finally clause, then the pending exception or return info
InspFinally(c) ==
    LET s == vcall[c]
        del == s.data # None /\ Exists(s.file_path)
    IN
    /\ s.pc = "insp_finally"
    /\ fs' = IF del THEN Unlink(s.file_path) ELSE fs
    /\ vcall' = [vcall EXCEPT ![c] =
         IF s.exc # "" THEN Raise(s, s.exc) ELSE [s EXCEPT !.pc = "v_after_insp"]]
    /\ UNCHANGED <<env, icall, lib>>


(***************************************************************************)
(* Validation reasons.  A reason string is modelled by the rule it names   *)
(* and the values formatted into it.                                       *)
(***************************************************************************)
\* f"{mp:.2f}" of mp = pixels / 1_000_000.0: the value in hundredths, rounded
\* to the nearest (no pixel count of the model lies on a tie)
Format2f(pixels) == (pixels + 5000) \div 10000
\* info.megapixels > float(max_megapixels), the ceiling in hundredths of a megapixel
MpExceedsOrEqual(pixels, max100) == pixels >= max100 * 10000
MpExceeds(pixels, max100) == pixels > max100 * 10000

DurationReason(d, m) == [rule |-> "duration", fmt |-> "", value |-> d, limit |-> m]
SizeReason(pixels, m) == [rule |-> "size", fmt |-> "", value |-> Format2f(pixels), limit |-> m]
FormatReason(f) == [rule |-> "format", fmt |-> f, value |-> 0, limit |-> 0]

\* the rules with an unknown measure counted as a violation
VideoReasonsStrict(info, max_duration, max_megapixels) ==
    (IF max_duration # None
        /\ (info.duration = None \/ Val(info.duration) > Val(max_duration))
     THEN <<DurationReason(IF info.duration = None THEN 0 ELSE Val(info.duration),
                           Val(max_duration))>> ELSE <<>>)
    \o
    (IF max_megapixels # None
        /\ (\/ info.width = None \/ info.height = None
            \/ Val(info.width) * Val(info.height) > Val(max_megapixels) * 10000)
     THEN <<SizeReason(IF info.width = None \/ info.height = None THEN 0
                       ELSE Val(info.width) * Val(info.height), Val(max_megapixels))>>
     ELSE <<>>)

\* video_ops lines 214-220
VideoReasons(info, max_duration, max_megapixels) ==
    (IF max_duration # None /\ info.duration # None
        /\ Val(info.duration) > Val(max_duration)
     THEN <<DurationReason(Val(info.duration), Val(max_duration))>> ELSE <<>>)
    \o
    (IF max_megapixels # None
        /\ info.width # None /\ Val(info.width) # 0
        /\ info.height # None /\ Val(info.height) # 0
        /\ Val(info.width) * Val(info.height) > Val(max_megapixels) * 10000
     THEN <<SizeReason(Val(info.width) * Val(info.height), Val(max_megapixels))>>
     ELSE <<>>)

\* lines 209-211
VInspectRet(c) ==
    LET s == vcall[c] IN
    /\ s.pc = "v_after_insp"
    /\ s.operation = "inspect"
    /\ vcall' = [vcall EXCEPT ![c] = Return(s, s.info)]
    /\ UNCHANGED <<env, fs, icall, lib>>

\* lines 212-221
VValidateRet(c) ==
    LET s == vcall[c]
        reasons == VideoReasons(s.info, s.max_duration, s.max_megapixels)
    IN
    /\ s.pc = "v_after_insp"
    /\ s.operation = "validate"
    /\ vcall' = [vcall EXCEPT ![c] =
                   Return(s, [ok |-> Len(reasons) = 0, reasons |-> reasons,
                              info |-> s.info])]
    /\ UNCHANGED <<env, fs, icall, lib>>

\* lines 222-225
VThumbnailsRet(c) ==
    LET s == vcall[c] IN
    /\ s.pc = "v_after_insp"
    /\ s.operation = "thumbnails"
    /\ vcall' = [vcall EXCEPT ![c] =
                   Return(s, [thumbnail |-> s.info.thumbnail_data_url, info |-> s.info])]
    /\ UNCHANGED <<env, fs, icall, lib>>

(***************************************************************************)
(* video_ops, operation extract_frame (lines 226-250)                      *)
(***************************************************************************)
\* lines 228-232 with the bytes never written out
EfSourceNoTemp(c) ==
    LET s == vcall[c] IN
    /\ s.pc = "ef_src"
    /\ vcall' = [vcall EXCEPT ![c] = [s EXCEPT !.pc = "ef_try", !.file_path = s.path]]
    /\ UNCHANGED <<env, fs, icall, lib>>

\* lines 228-232
EfSource(c) ==
    LET s == vcall[c] IN
    /\ s.pc = "ef_src"
    /\ vcall' = [vcall EXCEPT ![c] =
         IF s.data # None
         THEN [s EXCEPT !.pc = "tmp_create", !.tmp_for = "ef"]
         ELSE [s EXCEPT !.pc = "ef_try", !.file_path = s.path]]
    /\ UNCHANGED <<env, fs, icall, lib>>

\* the unavailability written as a raised error
EfNoMoviepyRaises(c) ==
    LET s == vcall[c] IN
    /\ s.pc = "ef_try"
    /\ ~env.moviepy
    /\ vcall' = [vcall EXCEPT ![c] = [s EXCEPT !.pc = "ef_finally", !.exc = "RuntimeError"]]
    /\ UNCHANGED <<env, fs, icall, lib>>

\* lines 243-244: the structured unavailability result
EfNoMoviepy(c) ==
    LET s == vcall[c] IN
    /\ s.pc = "ef_try"
    /\ ~env.moviepy
    /\ vcall' = [vcall EXCEPT ![c] =
                   [s EXCEPT !.pc = "ef_finally",
                             !.pending = Some([ok |-> FALSE, thumbnail |-> None,
                                               error |-> "moviepy not installed"])]]
    /\ UNCHANGED <<env, fs, icall, lib>>

\* line 235
EfOpen(c) ==
    LET s == vcall[c] IN
    /\ s.pc = "ef_try"
    /\ env.moviepy
    /\ vcall' = [vcall EXCEPT ![c] =
         IF VDecodable(Content(s.file_path))
         THEN [s EXCEPT !.pc = "ef_frame", !.clip = "open",
                        !.attempts = Append(@, "moviepy")]
         ELSE [s EXCEPT !.pc = "ef_finally", !.exc = "OSError",
                        !.attempts = Append(@, "moviepy")]]
    /\ UNCHANGED <<env, fs, icall, lib>>

\* lines 236-237: clip.get_frame(t)
EfFrame(c) ==
    LET s == vcall[c] IN
    /\ s.pc = "ef_frame"
    /\ \E readOk \in BOOLEAN :
         vcall' = [vcall EXCEPT ![c] =
           IF readOk THEN [s EXCEPT !.pc = "ef_encode"]
                     ELSE [s EXCEPT !.pc = "ef_finally", !.exc = "OSError"]]
    /\ UNCHANGED <<env, fs, icall, lib>>

\* line 238: _frame_to_data_url(frame), RuntimeError when Pillow is missing
EfEncode(c) ==
    LET s == vcall[c] IN
    /\ s.pc = "ef_encode"
    /\ vcall' = [vcall EXCEPT ![c] =
         IF env.pillow
         THEN [s EXCEPT !.pc = "ef_close",
                        !.pending = Some([ok |-> TRUE,
                                          thumbnail |-> Some(FrameToDataUrl(s.file_path)),
                                          error |-> ""])]
         ELSE [s EXCEPT !.pc = "ef_finally", !.exc = "RuntimeError"]]
    /\ UNCHANGED <<env, fs, icall, lib>>

\* lines 239-242
EfClose(c) ==
    LET s == vcall[c] IN
    /\ s.pc = "ef_close"
    /\ vcall' = [vcall EXCEPT ![c] = [s EXCEPT !.pc = "ef_finally", !.clip = "closed"]]
    /\ UNCHANGED <<env, fs, icall, lib>>

\* lines 245-250: the finally clause, then the pending exception or return value
EfFinally(c) ==
    LET s == vcall[c]
        del == s.data # None /\ Exists(s.file_path)
    IN
    /\ s.pc = "ef_finally"
    /\ fs' = IF del THEN Unlink(s.file_path) ELSE fs
    /\ vcall' = [vcall EXCEPT ![c] =
         IF s.exc # "" THEN Raise(s, s.exc) ELSE Return(s, Val(s.pending))]
    /\ UNCHANGED <<env, icall, lib>>

VideoStep(c) ==
    \/ VResolve(c) \/ VDispatch(c)
    \/ TmpCreate(c) \/ TmpWriteOk(c) \/ TmpWriteFails(c)
    \/ InspSource(c) \/ InspOpen(c) \/ InspFrame(c) \/ InspClose(c)
    \/ InspFfprobe(c) \/ InspFinally(c)
    \/ VInspectRet(c) \/ VValidateRet(c) \/ VThumbnailsRet(c)
    \/ EfSource(c) \/ EfNoMoviepy(c) \/ EfOpen(c) \/ EfFrame(c) \/ EfEncode(c)
    \/ EfClose(c) \/ EfFinally(c)


(***************************************************************************)
(* Image payloads: what Image.open finds in the bytes.                     *)
(*   png500   PNG  500x500   RGBA      png1000  PNG  1000x1000 RGB         *)
(*   jpg2000  JPEG 2000x2000 RGB       bmp3x2   BMP  3x2       RGB         *)
(*   bmp2000  BMP  2000x2000 RGB       jpgRot   JPEG 2x4, EXIF orientation *)
(*   junk     not an image                        6 (rotate to 4x2)        *)
(***************************************************************************)
ImageBytes == {"png500", "png1000", "jpg2000", "bmp3x2", "bmp2000", "jpgRot", "junk"}
ImgDecodable(p) == p \in ImageBytes \ {"junk"}
ImgFormat(p) == CASE p \in {"png500", "png1000"} -> "PNG"
                  [] p \in {"jpg2000", "jpgRot"} -> "JPEG"
                  [] OTHER -> "BMP"
ImgWidth(p) == CASE p = "png500" -> 500 [] p = "png1000" -> 1000
                 [] p \in {"jpg2000", "bmp2000"} -> 2000
                 [] p = "bmp3x2" -> 3 [] OTHER -> 2
ImgHeight(p) == CASE p = "png500" -> 500 [] p = "png1000" -> 1000
                  [] p \in {"jpg2000", "bmp2000"} -> 2000
                  [] p = "bmp3x2" -> 2 [] OTHER -> 4
ImgMode(p) == IF p = "png500" THEN "RGBA" ELSE "RGB"
ImgOrientation(p) == IF p = "jpgRot" THEN 6 ELSE 1

\* str.upper() on the format names in use
Upper(f) == CASE f = "png" -> "PNG" [] f = "jpeg" -> "JPEG" [] f = "jpg" -> "JPG"
              [] f = "webp" -> "WEBP" [] f = "gif" -> "GIF" [] f = "bmp" -> "BMP"
              [] f = "jp2" -> "JP2" [] f = "xyz" -> "XYZ" [] OTHER -> f

\* str.lower() on the format names in use
Lower(f) == CASE f = "PNG" -> "png" [] f = "JPEG" -> "jpeg" [] f = "JPG" -> "jpg"
              [] f = "WEBP" -> "webp" [] f = "GIF" -> "gif" [] f = "BMP" -> "bmp"
              [] f = "JP2" -> "jp2" [] f = "XYZ" -> "xyz" [] OTHER -> f

(***************************************************************************)
(* A decoded image: size, mode, the format attribute Pillow keeps on it,   *)
(* the EXIF orientation still pending, and the pixels, named by the bytes  *)
(* they came from and the operations applied since.                        *)
(***************************************************************************)
\* Image.open(io.BytesIO(b)): the image as the decoder plug-in returns it
ImageOpen(p) ==
    [w |-> ImgWidth(p), h |-> ImgHeight(p), mode |-> ImgMode(p),
     format |-> Some(ImgFormat(p)), orient |-> ImgOrientation(p), px |-> <<p>>]

\* Image.convert(mode): a new image; Pillow's _new copies info (EXIF included)
\* and leaves format at the class default None
Convert(img, mode) ==
    [img EXCEPT !.mode = mode, !.format = None,
                !.px = IF img.mode = mode THEN @ ELSE Append(@, mode)]

\* line 47-48
BytesToImage(p) == Convert(ImageOpen(p), "RGBA")

\* line 50-51
SafeFormat(f) == IF f = None THEN None ELSE Some(Upper(Val(f)))

\* line 53-54, as the exact pixel count (megapixels times 1_000_000)
CalcMegapixels(w, h) == w * h

\* lines 79-83: ImageOps.exif_transpose returns a transposed copy, or a plain
\* copy when there is nothing to do; a copy carries no format either
AutoOrient(img) ==
    IF img.orient \in 5..8
    THEN [img EXCEPT !.w = img.h, !.h = img.w, !.orient = 1, !.format = None,
                     !.px = Append(@, "transposed")]
    ELSE IF img.orient \in 2..4
    THEN [img EXCEPT !.orient = 1, !.format = None, !.px = Append(@, "transposed")]
    ELSE [img EXCEPT !.format = None]

\* lines 85-89
StripMetadata(img) == [img EXCEPT !.format = None, !.orient = 1]

(***************************************************************************)
(* _img_to_bytes (lines 23-45): the encoder call it ends with.             *)
(***************************************************************************)
ClampLow(lo, q, hi) == IF q < lo THEN lo ELSE q
Clamp(lo, q, hi) == IF q < lo THEN lo ELSE IF q > hi THEN hi ELSE q

ImgToBytes(img, fmt, quality, keep_alpha) ==
    LET f == Upper(IF fmt # None THEN Val(fmt)
                   ELSE IF img.format # None THEN Val(img.format) ELSE "PNG")
    IN
    IF f \in {"JPEG", "JPG"}
    THEN [format |-> "JPEG",
          px |-> IF keep_alpha /\ img.mode \in {"RGBA", "LA"}
                 THEN Append(img.px, "on_white") ELSE Append(img.px, "RGB"),
          w |-> img.w, h |-> img.h,
          quality |-> IF quality # None THEN Some(Clamp(1, Val(quality), 95)) ELSE None,
          optimize |-> TRUE]
    ELSE [format |-> f, px |-> img.px, w |-> img.w, h |-> img.h,
          quality |-> IF quality # None /\ f \in {"WEBP", "JP2", "JPEG2000"}
                      THEN Some(Clamp(1, Val(quality), 100)) ELSE None,
          optimize |-> FALSE]

\* Image.save(buf, format=...) looks the name up among the registered
\* encoders and raises KeyError on any other name ("JP2" is a file
\* extension of the JPEG2000 encoder, not the name of one)
SaveFormats == {"BMP", "GIF", "JPEG", "JPEG2000", "PNG", "TIFF", "WEBP"}
\* _img_to_bytes reaches an encoder for the format name f
Saveable(f) == Upper(f) \in {"JPEG", "JPG"} \/ Upper(f) \in SaveFormats

\* lines 56-64, kept abstract here: one hash per pixel content
AHash(img) == <<"ahash", img.px>>


(***************************************************************************)
(* Sizes computed by Pillow.                                               *)
(***************************************************************************)
Abs(n) == IF n < 0 THEN 0 - n ELSE n
Max2(a, b) == IF a > b THEN a ELSE b
\* floor and ceiling of a / b for b > 0 (Python's math.floor, math.ceil)
FloorDiv(a, b) == a \div b
CeilDiv(a, b) == IF a % b = 0 THEN a \div b ELSE (a \div b) + 1

\* Image.thumbnail((x, y)) on an image of w0 x h0: the size it is resized to.
\* It keeps the image when the box holds it, else fits one side and rounds
\* the other to the integer (floor or ceiling, floor on a tie) whose aspect
\* ratio is nearest the source's, at least 1.
ThumbnailSizeUpscale(w0, h0, x, y) ==
    IF y > 0 /\ x * h0 >= w0 * y
    THEN <<Max2(FloorDiv(y * w0, h0), 1), y>>
    ELSE <<x, Max2(FloorDiv(x * h0, w0), 1)>>
ThumbnailSize(w0, h0, x, y) ==
    IF x >= w0 /\ y >= h0 THEN <<w0, h0>>
    ELSE IF y > 0 /\ x * h0 >= w0 * y
    THEN LET fl == FloorDiv(y * w0, h0)
             ce == CeilDiv(y * w0, h0)
             pick == IF Abs(w0 * y - fl * h0) <= Abs(w0 * y - ce * h0) THEN fl ELSE ce
         IN <<Max2(pick, 1), y>>
    ELSE LET fl == FloorDiv(x * h0, w0)
             ce == CeilDiv(x * h0, w0)
             pick == IF fl = 0 THEN fl
                     ELSE IF ce = 0 THEN ce
                     ELSE IF Abs(w0 * fl - x * h0) * Abs(ce) <= Abs(w0 * ce - x * h0) * Abs(fl)
                     THEN fl ELSE ce
         IN <<x, Max2(pick, 1)>>

\* lines 91-96: a blurred PNG of at most 16x16 of the image it is given
PlaceholderDataUrl(img) ==
    LET sz == ThumbnailSize(img.w, img.h, 16, 16) IN
    <<"data:image/png",
      ImgToBytes([img EXCEPT !.w = sz[1], !.h = sz[2], !.px = Append(@, "tiny")],
                 Some("PNG"), None, TRUE)>>

(***************************************************************************)
(* inspect_image and validate_image                                        *)
(***************************************************************************)
\* lines 111-134, on bytes that decode
InspectImage(p) ==
    LET img == AutoOrient(BytesToImage(p)) IN
    [width |-> img.w, height |-> img.h, mode |-> img.mode,
     format |-> SafeFormat(img.format),
     megapixels |-> CalcMegapixels(img.w, img.h),
     md5 |-> <<"md5", ImgToBytes(img, Some("PNG"), None, TRUE)>>,
     ahash |-> AHash(img),
     exif |-> img.orient]

DefaultAllowed == {"PNG", "JPEG", "JPG", "WEBP", "GIF"}

\* line 142
AllowedSet(allowed_formats) ==
    IF allowed_formats = None \/ allowed_formats = Some({}) THEN DefaultAllowed
    ELSE {Upper(f) : f \in Val(allowed_formats)}

\* lines 144-148
ImageReasons(info, allowed, max_megapixels) ==
    (IF info.format # None /\ Upper(Val(info.format)) \notin allowed
     THEN <<FormatReason(Val(info.format))>> ELSE <<>>)
    \o
    (IF max_megapixels # None /\ MpExceeds(info.megapixels, Val(max_megapixels))
     THEN <<SizeReason(info.megapixels, Val(max_megapixels))>> ELSE <<>>)

\* lines 136-149, on bytes that decode
ValidateImage(p, allowed_formats, max_megapixels) ==
    LET info == InspectImage(p)
        reasons == ImageReasons(info, AllowedSet(allowed_formats), max_megapixels)
    IN [ok |-> Len(reasons) = 0, reasons |-> reasons, info |-> info]


(***************************************************************************)
(* transform_image (lines 151-212), on bytes that decode.  The result      *)
(* names the exception raised or the value returned, and in `geom` the     *)
(* Pillow resize/crop call the function reached, with the size it passed.  *)
(***************************************************************************)
GeometricOps == {"resize_contain", "resize_cover", "crop_center"}
NoGeom == [fn |-> "none", w |-> 0, h |-> 0, box |-> <<0, 0, 0, 0>>, paste |-> <<0, 0>>,
           inner |-> <<0, 0>>]
Geom(fn, w, h) == [NoGeom EXCEPT !.fn = fn, !.w = w, !.h = h]

TRaise(err, geom) == [kind |-> "raise", error |-> err, geom |-> geom, value |-> None,
                      enc |-> None]

\* lines 207-212
TEncode(img, fmt, quality, keep_alpha, geom) ==
    LET out_fmt == Upper(IF fmt # None THEN Val(fmt)
                         ELSE IF img.format # None THEN Val(img.format) ELSE "PNG")
        \* `enc` is the Image.save call _img_to_bytes makes, which raises
        \* KeyError when no encoder goes by the name
        e == ImgToBytes(img, Some(out_fmt), quality, keep_alpha)
    IN IF Saveable(out_fmt)
       THEN [kind |-> "return", error |-> "", geom |-> geom, enc |-> Some(e),
             value |-> Some([image |-> e, format |-> out_fmt,
                             width |-> img.w, height |-> img.h])]
       ELSE [kind |-> "raise", error |-> "LibraryError", geom |-> geom, enc |-> Some(e),
             value |-> None]

\* line 180: not width or not height
Falsy(n) == n = None \/ n = Some(0)

\* lines 182-196
ResizeContain(img, width, height, fmt, quality, keep_alpha, background) ==
    LET sz == ThumbnailSize(img.w, img.h, width, height)
        tmp == [img EXCEPT !.w = sz[1], !.h = sz[2],
                           !.px = IF sz = <<img.w, img.h>> THEN @ ELSE Append(@, "thumbnail")]
        x == (width - sz[1]) \div 2
        y == (height - sz[2]) \div 2
        \* `inner` is tmp.size after the thumbnail call
        g == [Geom("thumbnail", width, height) EXCEPT !.inner = sz]
    IN
    IF background # None /\ (width < 0 \/ height < 0)
    THEN TRaise("LibraryError", Geom("new", width, height))
    ELSE IF width < 0 THEN TRaise("LibraryError", Geom("thumbnail", width, height))
    ELSE IF background # None
    THEN TEncode([tmp EXCEPT !.w = width, !.h = height, !.mode = "RGBA",
                             !.px = Append(@, "letterbox")],
                 fmt, quality, keep_alpha, [g EXCEPT !.paste = <<x, y>>])
    ELSE TEncode(tmp, fmt, quality, keep_alpha, g)

\* lines 197-198: ImageOps.fit
ResizeCover(img, width, height, fmt, quality, keep_alpha) ==
    IF width < 0 \/ height < 0
    THEN TRaise("LibraryError", Geom("fit", width, height))
    ELSE TEncode([img EXCEPT !.w = width, !.h = height, !.px = Append(@, "fit")],
                 fmt, quality, keep_alpha, Geom("fit", width, height))

\* line 201: the guard of the center crop
CropTooLargeBoth(width, height, w, h) == width > w /\ height > h
CropTooLarge(width, height, w, h) == width > w \/ height > h

\* lines 199-205
CropCenter(img, width, height, fmt, quality, keep_alpha) ==
    LET left == (img.w - width) \div 2
        top == (img.h - height) \div 2
        g == [Geom("crop", width, height) EXCEPT
                !.box = <<left, top, left + width, top + height>>]
    IN
    IF CropTooLarge(width, height, img.w, img.h) THEN TRaise("InvalidInput", NoGeom)
    ELSE IF width < 0 \/ height < 0 THEN TRaise("LibraryError", g)
    ELSE TEncode([img EXCEPT !.w = width, !.h = height, !.px = Append(@, "crop")],
                 fmt, quality, keep_alpha, g)

\* line 180-181: the check that the geometric operations share
DimsMissing(width, height) == Falsy(width) \/ Falsy(height)

\* transform_image with an op it does not know refused
TransformImageStrict(p, op, width, height, fmt, quality, keep_alpha, background) ==
    LET img0 == AutoOrient(BytesToImage(p))
        img == IF op = "strip_metadata" THEN StripMetadata(img0) ELSE img0
    IN
    IF op \in GeometricOps
    THEN IF DimsMissing(width, height) THEN TRaise("InvalidInput", NoGeom)
         ELSE IF op = "resize_contain"
         THEN ResizeContain(img, Val(width), Val(height), fmt, quality, keep_alpha,
                            background)
         ELSE IF op = "resize_cover"
         THEN ResizeCover(img, Val(width), Val(height), fmt, quality, keep_alpha)
         ELSE CropCenter(img, Val(width), Val(height), fmt, quality, keep_alpha)
    ELSE IF op \in {"strip_metadata", "convert"}
    THEN TEncode(img, fmt, quality, keep_alpha, NoGeom)
    ELSE TRaise("UnknownOperation", NoGeom)

\* lines 170-212
TransformImage(p, op, width, height, fmt, quality, keep_alpha, background) ==
    LET img0 == AutoOrient(BytesToImage(p))
        img == IF op = "strip_metadata" THEN StripMetadata(img0) ELSE img0
    IN
    IF op \in GeometricOps
    THEN IF DimsMissing(width, height) THEN TRaise("InvalidInput", NoGeom)
         ELSE IF op = "resize_contain"
         THEN ResizeContain(img, Val(width), Val(height), fmt, quality, keep_alpha,
                            background)
         ELSE IF op = "resize_cover"
         THEN ResizeCover(img, Val(width), Val(height), fmt, quality, keep_alpha)
         ELSE CropCenter(img, Val(width), Val(height), fmt, quality, keep_alpha)
    ELSE TEncode(img, fmt, quality, keep_alpha, NoGeom)

\* lines 91-96: Image.filter refuses a palette image (ValueError)
PlaceholderRaises(img) == img.mode = "P"

ThumbItemSwapped(base, w, h, fmt, quality) ==
    [width |-> h, height |-> w, format |-> Upper(fmt),
     data_url |-> <<"data:image/", Lower(fmt),
                    ImgToBytes([base EXCEPT !.w = h, !.h = w, !.px = Append(@, "fit")],
                               Some(fmt), Some(quality), TRUE)>>]
\* lines 228-236: one item of the list
ThumbItem(base, w, h, fmt, quality) ==
    [width |-> w, height |-> h, format |-> Upper(fmt),
     data_url |-> <<"data:image/", Lower(fmt),
                    ImgToBytes([base EXCEPT !.w = w, !.h = h, !.px = Append(@, "fit")],
                               Some(fmt), Some(quality), TRUE)>>]

\* lines 214-238, on bytes that decode, with the default sizes, format and quality
DefaultSizes == <<64, 128, 256, 512>>
ThumbnailSet(p) ==
    LET base == AutoOrient(BytesToImage(p)) IN
    [items |-> [i \in 1..Len(DefaultSizes) |->
                  ThumbItem(base, DefaultSizes[i], DefaultSizes[i], "WEBP", 80)],
     placeholder_data_url |-> PlaceholderDataUrl(base)]


(***************************************************************************)
(* image_ops: the state of the call.                                       *)
(***************************************************************************)
IIdle == [pc |-> "idle", operation |-> "", image_b64 |-> None, path |-> None,
          allowed_formats |-> None, max_megapixels |-> Some(6400),
          op |-> None, width |-> None, height |-> None, fmt |-> None,
          quality |-> None, keep_alpha |-> TRUE, background |-> None,
          data |-> None, effects |-> {}, geom |-> NoGeom, enc |-> None,
          kind |-> "", error |-> "", ret |-> None,
          \* what the caller has been told by the inspect calls made so far
          seen |-> {}]

ImageOperations == {"inspect", "validate", "transform", "thumbnails", "ocr"}
IOperationArgs == ImageOperations \cup {"rotate"}
IB64Args == {None, EmptyStr, <<"b64!">>, <<"data:", "b64", "png500">>}
              \cup {<<"b64", p>> : p \in ImageBytes}
OpArgs == {None, Some("")} \cup {Some(o) : o \in GeometricOps}
            \cup {Some("strip_metadata"), Some("convert"), Some("sharpen")}
TargetArgs == {None} \cup {Some(n) : n \in (0 - 1)..MaxTarget}
FmtArgs == {None, Some("jpeg"), Some("jpg"), Some("webp"), Some("jp2"), Some("png")}
QualityArgs == {None} \cup {Some(q) : q \in {0, 1, 95, 96, 100, 101}}

IRaise(s, err) == [s EXCEPT !.pc = "done", !.kind = "raise", !.error = err]
IReturn(s, v) == [s EXCEPT !.pc = "done", !.kind = "return", !.ret = v]

\* the caller invokes image_ops(operation, image_b64, path, ...); arguments an
\* operation does not read keep the defaults of the signature, and fmt,
\* quality and keep_alpha are varied on the plain re-encoding (op "convert"
\* without a size) and on an op that no branch names, given with a size
ICall ==
    /\ icall.pc = "idle"
    /\ \E o \in IOperationArgs, b \in IB64Args, p \in {None, UserImage, MissingPath} :
       \* max_megapixels in hundredths; 64.0 is the default of the signature
       \E af \in (IF o = "validate" THEN {None, Some({"png", "bmp"})} ELSE {None}),
          mm \in (IF o = "validate" THEN {None, Some(6400), Some(100), Some(25)}
                  ELSE {Some(6400)}),
          top \in (IF o = "transform" THEN OpArgs ELSE {None}) :
       \E w \in (IF top # None /\ Val(top) \in GeometricOps THEN TargetArgs
                 ELSE IF o = "transform" THEN {None, Some(2)} ELSE {None}),
          h \in (IF top # None /\ Val(top) \in GeometricOps THEN TargetArgs
                 ELSE IF o = "transform" THEN {None, Some(2)} ELSE {None}),
          bg \in (IF top = Some("resize_contain")
                  THEN {None, Some(<<0, 0, 0>>), Some(<<0, 0>>)} ELSE {None}) :
       \E vary \in {(top = Some("convert") /\ w = None /\ h = None)
                      \/ (top = Some("sharpen") /\ w = Some(2) /\ h = Some(2))} :
       \E f \in (IF vary THEN FmtArgs ELSE {None}),
          q \in (IF vary THEN QualityArgs ELSE {None}),
          ka \in (IF vary THEN BOOLEAN ELSE {TRUE}) :
            icall' = [IIdle EXCEPT !.pc = "i_resolve", !.operation = o,
                                   !.image_b64 = b, !.path = p,
                                   !.allowed_formats = af, !.max_megapixels = mm,
                                   !.op = top, !.width = w, !.height = h, !.fmt = f,
                                   !.quality = q, !.keep_alpha = ka, !.background = bg,
                                   !.seen = icall.seen]
    /\ UNCHANGED <<env, fs, vcall, lib>>

\* lines 281-289
IResolve ==
    LET s == icall
        b64 == IF StartsWithData(s.image_b64) THEN AfterComma(s.image_b64)
                                              ELSE s.image_b64
    IN
    /\ s.pc = "i_resolve"
    /\ icall' =
         IF ~Truthy(s.image_b64) /\ ~Truthy(s.path)
         THEN IRaise(s, "InvalidInput")
         ELSE IF Truthy(s.image_b64)
         THEN IF B64Valid(b64)
              THEN [s EXCEPT !.pc = "i_dispatch", !.data = Some(B64Decode(b64)),
                             !.effects = @ \cup {"b64decode"}]
              ELSE IRaise([s EXCEPT !.effects = @ \cup {"b64decode"}], "DecodeError")
         ELSE IF Exists(s.path)
              THEN [s EXCEPT !.pc = "i_dispatch", !.data = Some(fs[s.path]),
                             !.effects = @ \cup {"read_path"}]
              ELSE IRaise(s, "FileNotFoundError")
    /\ UNCHANGED <<env, fs, vcall, lib>>

\* inspect written with the hashes salted by the file name, when there is one
IInspectByRoute ==
    LET s == icall
        p == Val(s.data)
        info == InspectImage(p)
    IN
    /\ s.pc = "i_dispatch"
    /\ s.operation = "inspect"
    /\ icall' =
         IF ImgDecodable(p)
         THEN IReturn([s EXCEPT !.effects = @ \cup {"decode"}],
                      [info |-> [info EXCEPT !.md5 = <<"md5", @, "read_path" \in s.effects>>],
                       placeholder_data_url |-> PlaceholderDataUrl(BytesToImage(p))])
         ELSE IRaise([s EXCEPT !.effects = @ \cup {"decode"}], "DecodeError")
    /\ UNCHANGED <<env, fs, vcall, lib>>

\* lines 291-295
IInspect ==
    LET s == icall
        p == Val(s.data)
    IN
    /\ s.pc = "i_dispatch"
    /\ s.operation = "inspect"
    /\ icall' =
         IF ImgDecodable(p)
         THEN IReturn([s EXCEPT !.effects = @ \cup {"decode"}],
                      [info |-> InspectImage(p),
                       placeholder_data_url |-> PlaceholderDataUrl(BytesToImage(p))])
         ELSE IRaise([s EXCEPT !.effects = @ \cup {"decode"}], "DecodeError")
    /\ UNCHANGED <<env, fs, vcall, lib>>

\* lines 296-297
IValidate ==
    LET s == icall
        p == Val(s.data)
    IN
    /\ s.pc = "i_dispatch"
    /\ s.operation = "validate"
    /\ icall' =
         IF ImgDecodable(p)
         THEN IReturn([s EXCEPT !.effects = @ \cup {"decode"}],
                      ValidateImage(p, s.allowed_formats, s.max_megapixels))
         ELSE IRaise([s EXCEPT !.effects = @ \cup {"decode"}], "DecodeError")
    /\ UNCHANGED <<env, fs, vcall, lib>>

\* lines 298-308
ITransform ==
    LET s == icall
        p == Val(s.data)
        t == TransformImage(p, Val(s.op), s.width, s.height, s.fmt, s.quality,
                            s.keep_alpha, s.background)
    IN
    /\ s.pc = "i_dispatch"
    /\ s.operation = "transform"
    /\ icall' =
         IF s.op = None \/ s.op = Some("") THEN IRaise(s, "InvalidInput")
         ELSE IF s.background # None /\ Len(Val(s.background)) # 3
         THEN IRaise(s, "InvalidInput")
         ELSE IF ~ImgDecodable(p)
         THEN IRaise([s EXCEPT !.effects = @ \cup {"decode"}], "DecodeError")
         ELSE IF t.kind = "raise"
         THEN IRaise([s EXCEPT !.effects = @ \cup {"decode"}, !.geom = t.geom,
                               !.enc = t.enc], t.error)
         ELSE IReturn([s EXCEPT !.effects = @ \cup {"decode"}, !.geom = t.geom,
                                !.enc = t.enc], Val(t.value))
    /\ UNCHANGED <<env, fs, vcall, lib>>

\* lines 309-310
IThumbnails ==
    LET s == icall
        p == Val(s.data)
    IN
    /\ s.pc = "i_dispatch"
    /\ s.operation = "thumbnails"
    /\ icall' =
         IF ImgDecodable(p)
         THEN IReturn([s EXCEPT !.effects = @ \cup {"decode"}], ThumbnailSet(p))
         ELSE IRaise([s EXCEPT !.effects = @ \cup {"decode"}], "DecodeError")
    /\ UNCHANGED <<env, fs, vcall, lib>>

\* ocr_text written with the decoding ahead of the capability test
IOcrDecodeFirst ==
    LET s == icall
        p == Val(s.data)
    IN
    /\ s.pc = "i_dispatch"
    /\ s.operation = "ocr"
    /\ icall' =
         IF ~ImgDecodable(p)
         THEN IRaise([s EXCEPT !.effects = @ \cup {"decode"}], "DecodeError")
         ELSE IReturn([s EXCEPT !.effects = @ \cup {"decode"}],
                      [ok |-> FALSE, text |-> "", error |-> "pytesseract not installed"])
    /\ UNCHANGED <<env, fs, vcall, lib>>

\* lines 311-312 and ocr_text, lines 240-256
IOcr ==
    LET s == icall
        p == Val(s.data)
    IN
    /\ s.pc = "i_dispatch"
    /\ s.operation = "ocr"
    /\ \E recognized \in BOOLEAN :
         icall' =
           IF ~env.tess
           THEN IReturn(s, [ok |-> FALSE, text |-> "", error |-> "pytesseract not installed"])
           ELSE IF ~ImgDecodable(p)
           THEN IRaise([s EXCEPT !.effects = @ \cup {"decode"}], "DecodeError")
           ELSE IF recognized
           THEN IReturn([s EXCEPT !.effects = @ \cup {"decode"}],
                        [ok |-> TRUE, text |-> <<"text", p>>, error |-> ""])
           ELSE IReturn([s EXCEPT !.effects = @ \cup {"decode"}],
                        [ok |-> FALSE, text |-> "", error |-> "TesseractError"])
    /\ UNCHANGED <<env, fs, vcall, lib>>

\* lines 313-314
IUnknown ==
    LET s == icall IN
    /\ s.pc = "i_dispatch"
    /\ s.operation \notin ImageOperations
    /\ icall' = IRaise(s, "UnknownOperation")
    /\ UNCHANGED <<env, fs, vcall, lib>>

(***************************************************************************)
(* Direct calls of the functions of the two modules.  `lib` is the state   *)
(* of one such call: its arguments, its locals and how it ended.           *)
(***************************************************************************)
LIdle == [pc |-> "idle", fn |-> "", src |-> None, sizes |-> <<>>, fmt |-> "WEBP",
          quality |-> 80, base |-> None, i |-> 0, items |-> <<>>,
          url |-> "", max_bytes |-> 0, total |-> 0, nchunks |-> 0,
          grid |-> <<>>, bits |-> <<>>,
          kind |-> "", error |-> "", ret |-> None]

LRaise(s, err) == [s EXCEPT !.pc = "done", !.kind = "raise", !.error = err]
LReturn(s, v) == [s EXCEPT !.pc = "done", !.kind = "return", !.ret = Some(v)]

\* an image object built in memory, in palette mode
PaletteImage == [w |-> 8, h |-> 4, mode |-> "P", format |-> None, orient |-> 1,
                 px |-> <<"palette">>]

\* the default of the signature (line 216), as (w, h) pairs
DefaultSizePairs == [i \in 1..Len(DefaultSizes) |-> <<DefaultSizes[i], DefaultSizes[i]>>]

\* thumbnail_set(data, sizes, fmt), lines 214-219
ThumbnailSetCall ==
    /\ lib.pc = "idle"
    \* the `data` argument is bytes or an image object
    /\ \E src \in {[bytes |-> Some(p), image |-> None] :
                      p \in {"png500", "jpgRot", "junk"}}
                     \cup {[bytes |-> None, image |-> Some(PaletteImage)]},
          sizes \in {DefaultSizePairs, <<>>, << <<32, 16>> >>,
                     << <<128, 128>>, <<64, 64>> >>,
                     << <<64, 64>>, <<0, 16>>, <<32, 16>> >>,
                     << <<64, 64>>, <<16, 0 - 1>> >>},
          fmt \in {"WEBP", "jpeg", "xyz"} :
         lib' = [LIdle EXCEPT !.pc = "ts_base", !.fn = "thumbnail_set",
                              !.src = Some(src), !.sizes = sizes, !.fmt = fmt]
    /\ UNCHANGED <<env, fs, vcall, icall>>

\* lines 221-226
ThumbBase ==
    LET s == lib
        src == Val(s.src)
    IN
    /\ s.pc = "ts_base"
    /\ lib' =
         IF src.image # None
         THEN [s EXCEPT !.pc = "ts_loop", !.base = Some(AutoOrient(Val(src.image))),
                        !.i = 1]
         ELSE IF ImgDecodable(Val(src.bytes))
         THEN [s EXCEPT !.pc = "ts_loop", !.i = 1,
                        !.base = Some(AutoOrient(BytesToImage(Val(src.bytes))))]
         ELSE LRaise(s, "DecodeError")
    /\ UNCHANGED <<env, fs, vcall, icall>>

\* lines 227-236, one turn of the loop, written with the failure swallowed
ThumbStepSkip ==
    LET s == lib
        w == s.sizes[s.i][1]
        h == s.sizes[s.i][2]
    IN
    /\ s.pc = "ts_loop" /\ s.i <= Len(s.sizes)
    /\ lib' =
         IF w <= 0 \/ h <= 0 \/ ~Saveable(s.fmt)
         THEN [s EXCEPT !.i = @ + 1]
         ELSE [s EXCEPT !.i = @ + 1,
                        !.items = Append(@, ThumbItem(Val(s.base), w, h, s.fmt, s.quality))]
    /\ UNCHANGED <<env, fs, vcall, icall>>

\* lines 227-236, one turn of the loop: ImageOps.fit raises on a size that is
\* not positive (ZeroDivisionError, ValueError), the encoder on a format name
\* it does not know; nothing catches either
ThumbStep ==
    LET s == lib
        w == s.sizes[s.i][1]
        h == s.sizes[s.i][2]
    IN
    /\ s.pc = "ts_loop" /\ s.i <= Len(s.sizes)
    /\ lib' =
         IF w <= 0 \/ h <= 0 THEN LRaise(s, "LibraryError")
         ELSE IF ~Saveable(s.fmt) THEN LRaise(s, "LibraryError")
         ELSE [s EXCEPT !.i = @ + 1,
                        !.items = Append(@, ThumbItem(Val(s.base), w, h, s.fmt, s.quality))]
    /\ UNCHANGED <<env, fs, vcall, icall>>

\* lines 237-238
ThumbPlaceholder ==
    LET s == lib IN
    /\ s.pc = "ts_loop" /\ s.i > Len(s.sizes)
    /\ lib' =
         IF PlaceholderRaises(Val(s.base)) THEN LRaise(s, "LibraryError")
         ELSE LReturn(s, [items |-> s.items,
                          placeholder_data_url |-> PlaceholderDataUrl(Val(s.base))])
    /\ UNCHANGED <<env, fs, vcall, icall>>

\* _fetch_bytes_from_url(url, max_bytes), line 26
FetchCall ==
    /\ lib.pc = "idle"
    /\ \E u \in RemoteUrls, m \in {DefaultMaxBytes, 40000, 2 * ChunkSize, ChunkSize - 1, 0} :
         lib' = [LIdle EXCEPT !.pc = "f_open", !.fn = "_fetch_bytes_from_url",
                              !.url = u, !.max_bytes = m]
    /\ UNCHANGED <<env, fs, vcall, icall>>

\* lines 35-39, and the handlers of lines 49-52 for what urlopen raises
FetchOpen ==
    LET s == lib IN
    /\ s.pc = "f_open"
    /\ lib' = IF RemoteStatus(s.url) = "ok" THEN [s EXCEPT !.pc = "f_read"]
              ELSE LRaise(s, "TransferFailed")
    /\ UNCHANGED <<env, fs, vcall, icall>>

\* one turn of the loop, with the ceiling test written as >=
FetchReadGe ==
    LET s == lib
        left == RemoteLen(s.url) - s.total
        chunk == IF left < ChunkSize THEN left ELSE ChunkSize
        broken == RemoteCut(s.url) # None /\ s.total + chunk > Val(RemoteCut(s.url))
    IN
    /\ s.pc = "f_read"
    /\ lib' =
         IF broken THEN LRaise(s, "OSError")
         ELSE IF chunk = 0 THEN LReturn(s, [len |-> s.total])
         ELSE IF s.total + chunk >= s.max_bytes
         THEN LRaise([s EXCEPT !.total = @ + chunk, !.nchunks = @ + 1], "TransferTooLarge")
         ELSE [s EXCEPT !.total = @ + chunk, !.nchunks = @ + 1]
    /\ UNCHANGED <<env, fs, vcall, icall>>

\* lines 40-48, one turn of the loop: resp.read(16384) gives the next bytes of
\* the body, fewer at its end and none after it; a connection that breaks
\* makes the read raise, which nothing here catches.  The buffer returned is
\* the concatenation of the chunks, so its length is the running total.
FetchRead ==
    LET s == lib
        left == RemoteLen(s.url) - s.total
        chunk == IF left < ChunkSize THEN left ELSE ChunkSize
        broken == RemoteCut(s.url) # None /\ s.total + chunk > Val(RemoteCut(s.url))
    IN
    /\ s.pc = "f_read"
    /\ lib' =
         IF broken THEN LRaise(s, "OSError")
         ELSE IF chunk = 0 THEN LReturn(s, [len |-> s.total])
         ELSE IF s.total + chunk > s.max_bytes
         THEN LRaise([s EXCEPT !.total = @ + chunk, !.nchunks = @ + 1], "TransferTooLarge")
         ELSE [s EXCEPT !.total = @ + chunk, !.nchunks = @ + 1]
    /\ UNCHANGED <<env, fs, vcall, icall>>

(***************************************************************************)
(* _ahash, lines 56-64, on the pixels of the reduced greyscale image.      *)
(***************************************************************************)
\* the default of the signature, line 56
HashSize == 8
HashCells == HashSize * HashSize

RECURSIVE SumTo(_, _)
\* sum(pixels), line 60
SumTo(g, n) == IF n = 0 THEN 0 ELSE g[n] + SumTo(g, n - 1)

\* list(g.getdata()), line 59: the cells row by row, each 0..255.  The grids
\* tried: two grey levels laid out in a pattern, and two ramps.
GridLevels == {0, 1, 127, 255}
TwoLevel(lo, hi, S) == [i \in 1..HashCells |-> IF i \in S THEN hi ELSE lo]
AhashGrids ==
    {TwoLevel(lo, hi, S) :
       lo \in GridLevels, hi \in GridLevels,
       S \in {{}, {1}, {HashCells}, 1..4, 5..HashCells, 1..(HashCells - 1),
              2..HashCells, 1..HashSize, (HashCells - 3)..HashCells,
              1..(HashCells \div 2), {i \in 1..HashCells : i % 2 = 1},
              {i \in 1..HashCells : i % HashSize = 0}}}
      \cup {[i \in 1..HashCells |-> (i * 37) % 256],
            [i \in 1..HashCells |-> 4 * i - 1]}

\* line 61 with >= in place of >
BitsOfGe(g) ==
    [i \in 1..Len(g) |-> IF g[i] * Len(g) >= SumTo(g, Len(g)) THEN 1 ELSE 0]

\* lines 60-61: avg = sum / len is a float; with len = 64 the division is
\* exact, so p > avg is p * len > sum
BitsOf(g) ==
    [i \in 1..Len(g) |-> IF g[i] * Len(g) > SumTo(g, Len(g)) THEN 1 ELSE 0]

RECURSIVE StripZeros(_)
StripZeros(ds) == IF ds # <<>> /\ Head(ds) = 0 THEN StripZeros(Tail(ds)) ELSE ds

\* int(bits, 2), line 64: the number the bit string spells, most significant
\* bit first.  The number is kept as its base-16 digits without leading
\* zeros (the empty sequence is zero), a Python int having no width.
IntOfBits(b) ==
    StripZeros([k \in 1..(Len(b) \div 4) |->
                  8 * b[4 * k - 3] + 4 * b[4 * k - 2] + 2 * b[4 * k - 1] + b[4 * k]])

HexDigits == <<"0", "1", "2", "3", "4", "5", "6", "7",
               "8", "9", "a", "b", "c", "d", "e", "f">>

\* format(n, "0{width}x"), line 64: lower-case hex digits, zeros on the left
\* up to `width` digits, never cut
FormatHex(n, width) ==
    LET ds == IF n = <<>> THEN <<0>> ELSE n
        pad == IF Len(ds) < width THEN width - Len(ds) ELSE 0
    IN [k \in 1..(pad + Len(ds)) |-> IF k <= pad THEN "0" ELSE HexDigits[ds[k - pad] + 1]]

\* _ahash(img), lines 56-59: the image reduced to the grid
AhashCall ==
    /\ lib.pc = "idle"
    /\ \E g \in AhashGrids :
         lib' = [LIdle EXCEPT !.pc = "ah_bits", !.fn = "_ahash", !.grid = g]
    /\ UNCHANGED <<env, fs, vcall, icall>>

\* lines 60-61, the comparison written with >=
AhashBitsGe ==
    LET s == lib IN
    /\ s.pc = "ah_bits"
    /\ lib' = [s EXCEPT !.pc = "ah_hex", !.bits = BitsOfGe(s.grid)]
    /\ UNCHANGED <<env, fs, vcall, icall>>

\* lines 60-61
AhashBits ==
    LET s == lib IN
    /\ s.pc = "ah_bits"
    /\ lib' = [s EXCEPT !.pc = "ah_hex", !.bits = BitsOf(s.grid)]
    /\ UNCHANGED <<env, fs, vcall, icall>>

\* lines 63-64
AhashHex ==
    LET s == lib IN
    /\ s.pc = "ah_hex"
    /\ lib' = LReturn(s, FormatHex(IntOfBits(s.bits), HashCells \div 4))
    /\ UNCHANGED <<env, fs, vcall, icall>>

(***************************************************************************)
(* The caller: one synchronous call, to image_ops or to video_ops.         *)
(***************************************************************************)
Calls == {1}

AllIdle == /\ icall.pc = "idle" /\ lib.pc = "idle"
           /\ \A c \in Calls : vcall[c].pc = "idle"

Init ==
    /\ env \in Envs
    /\ fs = InitFs
    /\ vcall = [c \in Calls |-> VIdle]
    /\ icall = IIdle
    /\ lib = LIdle

ImageCall == AllIdle /\ ICall
VideoCall == AllIdle /\ VCall(1)
ThumbnailSetDirect == AllIdle /\ ThumbnailSetCall
FetchDirect == AllIdle /\ FetchCall
AhashDirect == AllIdle /\ AhashCall

Next ==
    \/ ImageCall
    \/ IResolve \/ IInspect \/ IValidate \/ ITransform \/ IThumbnails \/ IOcr
    \/ IUnknown
    \/ VideoCall
    \/ \E c \in Calls : VideoStep(c)
    \/ ThumbnailSetDirect \/ ThumbBase \/ ThumbStep \/ ThumbPlaceholder
    \/ FetchDirect \/ FetchOpen \/ FetchRead
    \/ AhashDirect \/ AhashBits \/ AhashHex

Spec == Init /\ [][Next]_vars

(***************************************************************************)
(* A caller that makes image_ops calls one after another, remembering the  *)
(* hashes each inspect call returned for the bytes it was given.           *)
(***************************************************************************)
SeqCall ==
    /\ ICall
    /\ icall'.image_b64 \in {None, <<"b64", "png500">>, <<"b64", "jpgRot">>,
                             <<"data:", "b64", "png500">>, <<"b64", "junk">>}
    /\ icall'.path \in {None, UserImage}
    /\ icall'.allowed_formats = None /\ icall'.max_megapixels = Some(6400)
    /\ icall'.op \in {None, Some("convert")}
    /\ icall'.width = None /\ icall'.height = None
    /\ icall'.fmt = None /\ icall'.quality = None /\ icall'.keep_alpha

\* the call has ended; the caller notes what an inspect returned and is free
\* to call again
ImageReturned ==
    LET s == icall IN
    /\ s.pc = "done"
    /\ icall' = [IIdle EXCEPT !.seen =
                   IF s.operation = "inspect" /\ s.kind = "return"
                   THEN s.seen \cup {[bytes |-> Val(s.data), md5 |-> s.ret.info.md5,
                                      ahash |-> s.ret.info.ahash]}
                   ELSE s.seen]
    /\ UNCHANGED <<env, fs, vcall, lib>>

SeqNext ==
    \/ SeqCall \/ ImageReturned
    \/ IResolve \/ IInspect \/ IValidate \/ ITransform \/ IThumbnails \/ IOcr
    \/ IUnknown

SeqSpec == Init /\ [][SeqNext]_vars

(***************************************************************************)
(* Two callers: video_ops calls on byte-buffer sources, running            *)
(* interleaved on the same backing storage (separate threads or tasks).    *)
(* A step of a call is one of the steps of VideoStep; the steps of the two *)
(* calls interleave in any order.                                          *)
(***************************************************************************)
ConcCalls == {1, 2}

ConcInit ==
    /\ env \in Envs
    /\ fs = InitFs
    /\ vcall = [c \in ConcCalls |-> VIdle]
    /\ icall = IIdle
    /\ lib = LIdle

\* a caller invokes video_ops(operation, video_b64=...) at any time
ConcCall(c) ==
    /\ VCall(c)
    /\ vcall'[c].operation \in VideoOperations
    /\ vcall'[c].video_b64 \in {<<"b64", "clipA">>, <<"b64", "junk">>}
    /\ vcall'[c].video_url = None /\ vcall'[c].path = None
    /\ vcall'[c].max_duration = None /\ vcall'[c].max_megapixels = None

ConcNext == \E c \in ConcCalls : ConcCall(c) \/ VideoStep(c)

ConcSpec == ConcInit /\ [][ConcNext]_vars


(***************************************************************************)
(* Properties.                                                             *)
(***************************************************************************)
VDone(c) == vcall[c].pc = "done"
IDone == icall.pc = "done"
\* the bytes a video call probes
SrcBytes(s) == IF s.data # None THEN Val(s.data) ELSE Content(s.path)
InspectFamily == {"inspect", "validate", "thumbnails"}
Unset(info) == /\ info.width = None /\ info.height = None
               /\ info.duration = None /\ info.fps = None
\* the rule names of a reasons list, in order
Rules(reasons) == [i \in 1..Len(reasons) |-> reasons[i].rule]
\* the size of the source after orientation correction
OrientedW(p) == IF ImgOrientation(p) \in 5..8 THEN ImgHeight(p) ELSE ImgWidth(p)
OrientedH(p) == IF ImgOrientation(p) \in 5..8 THEN ImgWidth(p) ELSE ImgHeight(p)

\* C1: when a video_ops call on a byte-buffer source has ended, by a return or
\* by a raised error, no temp file the call created is left on storage.
C1_TempFilesRemoved ==
    \A c \in DOMAIN vcall :
        (VDone(c) /\ vcall[c].data # None) =>
            \A n \in vcall[c].created : ~Exists(n)

\* C2: video inspect on bytes that are not a readable video, once the bytes
\* are on storage, returns (never raises) a record with width, height,
\* duration and fps unset and size_bytes and md5 set, in every capability
\* configuration.
C2_InspectCorruptReturns ==
    \A c \in DOMAIN vcall :
        LET s == vcall[c] IN
        (/\ VDone(c) /\ s.operation = "inspect" /\ s.data # None
         /\ s.file_path # None /\ ~VDecodable(Val(s.data)))
        => /\ s.kind = "return"
           /\ Unset(s.ret)
           /\ s.ret.size_bytes = Len8(Val(s.data))
           /\ s.ret.md5 = Some(Md5Bytes(Val(s.data)))

\* C3: probing is an ordered fallback chain: an installed rich library is
\* tried first; when its attempt fails the command-line probe is tried next;
\* when both fail the call returns a record with every field unset except
\* size_bytes and md5.
C3_ProbeFallbackChain ==
    \A c \in DOMAIN vcall :
        LET s == vcall[c]
            richFails == env.moviepy /\ ~VDecodable(SrcBytes(s))
            cliFails == ~env.ffprobe \/ ~VDecodable(SrcBytes(s))
        IN
        (VDone(c) /\ s.operation \in InspectFamily /\ s.file_path # None)
        => /\ env.moviepy => (s.attempts # <<>> /\ Head(s.attempts) = "moviepy")
           /\ richFails => s.attempts = <<"moviepy", "ffprobe">>
           /\ ((~env.moviepy \/ richFails) /\ cliFails)
                => (s.kind = "return" /\ Unset(s.info) /\ s.info.format = None
                    /\ s.info.md5 # None)

\* C4: a call that gives no source, or more than one, ends with an input error
\* and has decoded, fetched and written nothing.
C4_ExactlyOneSource ==
    /\ (IDone /\ Truthy(icall.image_b64) = Truthy(icall.path))
         => (icall.kind = "raise" /\ icall.error = "InvalidInput"
             /\ icall.effects = {})
    /\ \A c \in DOMAIN vcall :
         LET s == vcall[c]
             given == {k \in {"b64", "url", "path"} :
                         \/ k = "b64" /\ Truthy(s.video_b64)
                         \/ k = "url" /\ s.video_url # None
                         \/ k = "path" /\ Truthy(s.path)}
         IN (VDone(c) /\ Cardinality(given) # 1)
              => (s.kind = "raise" /\ s.error = "InvalidInput"
                  /\ s.effects = {} /\ s.created = {})

\* C5: a call whose operation is outside the supported set never returns a
\* result: it ends with a raised error.
C5_UnknownOperationRejected ==
    /\ (icall.operation \notin ImageOperations /\ icall.pc # "idle")
         => (icall.kind # "return" /\ (IDone => icall.kind = "raise"))
    /\ \A c \in DOMAIN vcall :
         (vcall[c].operation \notin VideoOperations /\ vcall[c].pc # "idle")
           => (vcall[c].kind # "return" /\ (VDone(c) => vcall[c].kind = "raise"))

C5_Witness ==
    /\ VDone(1) /\ vcall[1].operation = "transcode"
    /\ vcall[1].data # None
    /\ vcall[1].kind = "raise" /\ vcall[1].error = "UnknownOperation"

\* C6: image validate on bytes whose encoded format is not in the allow-list
\* returns ok = false with a reason naming that format, and the info it
\* returns still carries the format.
C6_DisallowedFormatReported ==
    LET s == icall IN
    (/\ IDone /\ s.operation = "validate" /\ s.data # None
     /\ ImgDecodable(Val(s.data))
     /\ ImgFormat(Val(s.data)) \notin AllowedSet(s.allowed_formats))
    => /\ s.kind = "return"
       /\ ~s.ret.ok
       /\ \E i \in 1..Len(s.ret.reasons) :
             /\ s.ret.reasons[i].rule = "format"
             /\ s.ret.reasons[i].fmt = ImgFormat(Val(s.data))
       /\ s.ret.info.format = Some(ImgFormat(Val(s.data)))

\* C7: validate returns one reason per violated rule, in the order format then
\* size for an image and duration then size for a video, with ok true exactly
\* when there is none, and a violated rule never ends the call with an error.
C7_EveryViolationReported ==
    /\ LET s == icall
           p == Val(s.data)
           expected ==
             (IF ImgFormat(p) \notin AllowedSet(s.allowed_formats)
              THEN <<"format">> ELSE <<>>)
             \o (IF s.max_megapixels # None
                    /\ OrientedW(p) * OrientedH(p) > Val(s.max_megapixels) * 10000
                 THEN <<"size">> ELSE <<>>)
       IN (/\ IDone /\ s.operation = "validate" /\ s.data # None
           /\ ImgDecodable(p))
          => /\ s.kind = "return"
             /\ Rules(s.ret.reasons) = expected
             /\ s.ret.ok = (s.ret.reasons = <<>>)
    /\ \A c \in DOMAIN vcall :
         LET s == vcall[c]
             expected ==
               (IF s.max_duration # None /\ s.info.duration # None
                   /\ Val(s.info.duration) > Val(s.max_duration)
                THEN <<"duration">> ELSE <<>>)
               \o (IF s.max_megapixels # None /\ s.info.width # None
                      /\ s.info.height # None
                      /\ Val(s.info.width) * Val(s.info.height)
                           > Val(s.max_megapixels) * 10000
                   THEN <<"size">> ELSE <<>>)
         IN (VDone(c) /\ s.operation = "validate" /\ s.kind = "return")
            => /\ Rules(s.ret.reasons) = expected
               /\ s.ret.ok = (s.ret.reasons = <<>>)

\* C8: image validate reports the size rule exactly when width*height/1e6 is
\* strictly above max_megapixels: at 1.0 MP a 2000x2000 image is rejected with
\* the value 4.00 in the reason, 500x500 is accepted, 1000x1000 (exactly the
\* ceiling) is accepted, and max_megapixels = None switches the rule off.
C8_MegapixelCeiling ==
    LET s == icall
        w == s.ret.info.width
        h == s.ret.info.height
        sizeReasons == {i \in 1..Len(s.ret.reasons) : s.ret.reasons[i].rule = "size"}
    IN
    (IDone /\ s.operation = "validate" /\ s.kind = "return")
    => /\ (sizeReasons # {})
            = (s.max_megapixels # None /\ w * h > Val(s.max_megapixels) * 10000)
       /\ (w = 2000 /\ h = 2000 /\ s.max_megapixels = Some(100))
            => (/\ ~s.ret.ok
                /\ \E i \in sizeReasons : s.ret.reasons[i].value = 400)
       /\ (w = 500 /\ h = 500 /\ s.max_megapixels = Some(100)) => s.ret.ok
       /\ (w = 500 /\ h = 500 /\ s.max_megapixels = Some(25)) => s.ret.ok
       /\ (w = 1000 /\ h = 1000 /\ s.max_megapixels = Some(100)) => s.ret.ok
       /\ s.max_megapixels = None => sizeReasons = {}

C8_Witness ==
    /\ IDone /\ icall.operation = "validate" /\ icall.kind = "return"
    /\ icall.data = Some("jpg2000") /\ icall.max_megapixels = Some(100)
    /\ ~icall.ret.ok
    /\ Len(icall.ret.reasons) = 1 /\ icall.ret.reasons[1].value = 400

\* C9: crop_center to a positive target (W,H) on a source of (W',H') ends with
\* an input error when W > W' or H > H', and otherwise returns an image of
\* exactly W x H cut at left = (W'-W) div 2, top = (H'-H) div 2, a box inside
\* the source.
C9_CropCenter ==
    LET s == icall
        p == Val(s.data)
        W == Val(s.width)
        H == Val(s.height)
        W0 == OrientedW(p)
        H0 == OrientedH(p)
        left == (W0 - W) \div 2
        top == (H0 - H) \div 2
    IN
    (/\ IDone /\ s.operation = "transform" /\ s.op = Some("crop_center")
     /\ s.data # None /\ ImgDecodable(p)
     /\ s.width # None /\ s.height # None /\ W > 0 /\ H > 0)
    => IF W > W0 \/ H > H0
       THEN s.kind = "raise" /\ s.error = "InvalidInput" /\ s.geom.fn = "none"
       ELSE /\ s.kind = "return"
            /\ s.ret.width = W /\ s.ret.height = H
            /\ s.geom.fn = "crop"
            /\ s.geom.box = <<left, top, left + W, top + H>>
            /\ 0 <= left /\ left + W <= W0
            /\ 0 <= top /\ top + H <= H0

C9_Witness ==
    /\ IDone /\ icall.operation = "transform" /\ icall.op = Some("crop_center")
    /\ icall.data = Some("jpgRot")
    /\ icall.kind = "return"
    /\ icall.ret.width = 2 /\ icall.ret.height = 2
    /\ icall.geom.box = <<1, 0, 3, 2>>

\* C10: resize_contain, resize_cover and crop_center end with an input error
\* whenever width or height is missing, zero or negative, and no resize or
\* crop is attempted with such a dimension.
C10_NonPositiveRejected ==
    LET s == icall
        bad(n) == n = None \/ Val(n) <= 0
    IN
    (/\ IDone /\ s.operation = "transform" /\ s.op # None
     /\ Val(s.op) \in GeometricOps
     /\ s.data # None /\ ImgDecodable(Val(s.data))
     /\ (s.background = None \/ Len(Val(s.background)) = 3)
     /\ (bad(s.width) \/ bad(s.height)))
    => (s.kind = "raise" /\ s.error = "InvalidInput" /\ s.geom.fn = "none")

\* C11: resize_contain to a positive target (W,H) on a decodable source.  With
\* a background the returned image is exactly W x H for every source size, the
\* resized image lies inside the canvas at the offset
\* ((W - w') div 2, (H - h') div 2), both coordinates non-negative.  Without
\* a background the returned image fits in the W x H box and is never larger
\* than the source.
C11_ResizeContain ==
    LET s == icall
        p == Val(s.data)
        W == Val(s.width)
        H == Val(s.height)
        W0 == OrientedW(p)
        H0 == OrientedH(p)
        w1 == s.geom.inner[1]
        h1 == s.geom.inner[2]
    IN
    (/\ IDone /\ s.operation = "transform" /\ s.op = Some("resize_contain")
     /\ s.data # None /\ ImgDecodable(p)
     /\ s.width # None /\ s.height # None /\ W > 0 /\ H > 0
     /\ (s.background = None \/ Len(Val(s.background)) = 3))
    => /\ s.kind = "return"
       /\ s.geom.fn = "thumbnail"
       /\ 1 <= w1 /\ w1 <= W /\ w1 <= W0
       /\ 1 <= h1 /\ h1 <= H /\ h1 <= H0
       /\ IF s.background # None
          THEN /\ s.ret.width = W /\ s.ret.height = H
               /\ s.ret.image.w = W /\ s.ret.image.h = H
               /\ s.geom.paste = <<(W - w1) \div 2, (H - h1) \div 2>>
               /\ s.geom.paste[1] >= 0 /\ s.geom.paste[1] + w1 <= W
               /\ s.geom.paste[2] >= 0 /\ s.geom.paste[2] + h1 <= H
          ELSE /\ s.ret.width = w1 /\ s.ret.height = h1
               /\ s.ret.image.w = w1 /\ s.ret.image.h = h1

\* a 3 x 2 source letterboxed in a 4 x 4 canvas
C11_Witness ==
    /\ IDone /\ icall.operation = "transform" /\ icall.op = Some("resize_contain")
    /\ icall.data = Some("bmp3x2") /\ icall.background = Some(<<0, 0, 0>>)
    /\ icall.width = Some(4) /\ icall.height = Some(4)
    /\ icall.kind = "return"
    /\ icall.ret.width = 4 /\ icall.ret.height = 4
    /\ icall.geom.inner = <<3, 2>> /\ icall.geom.paste = <<0, 1>>

LDone == lib.pc = "done"
\* the items of a thumbnail result are, in order, one per requested (w, h),
\* each naming that size and carrying an image encoded at that size
ItemsMatch(items, sizes) ==
    /\ Len(items) = Len(sizes)
    /\ \A i \in 1..Len(sizes) :
         /\ items[i].width = sizes[i][1] /\ items[i].height = sizes[i][2]
         /\ items[i].data_url[3].w = sizes[i][1]
         /\ items[i].data_url[3].h = sizes[i][2]

\* C12: image_ops thumbnails on a decodable source returns exactly the four
\* items 64, 128, 256, 512 in that order, each of the requested width and
\* height, and one placeholder data URL; a call of thumbnail_set that returns
\* has one item per requested size, in the order of the request.
C12_ThumbnailItems ==
    /\ (/\ IDone /\ icall.operation = "thumbnails"
         /\ icall.data # None /\ ImgDecodable(Val(icall.data)))
        => /\ icall.kind = "return"
           /\ DOMAIN icall.ret = {"items", "placeholder_data_url"}
           /\ Len(icall.ret.items) = 4
           /\ [i \in 1..4 |-> icall.ret.items[i].width] = <<64, 128, 256, 512>>
           /\ ItemsMatch(icall.ret.items, DefaultSizePairs)
           /\ icall.ret.placeholder_data_url[1] = "data:image/png"
    /\ (LDone /\ lib.fn = "thumbnail_set" /\ lib.kind = "return")
        => /\ DOMAIN Val(lib.ret) = {"items", "placeholder_data_url"}
           /\ ItemsMatch(Val(lib.ret).items, lib.sizes)
           /\ Val(lib.ret).placeholder_data_url[1] = "data:image/png"
    \* the direct call with the defaults is the call image_ops makes
    /\ (/\ LDone /\ lib.fn = "thumbnail_set" /\ lib.kind = "return"
         /\ lib.sizes = DefaultSizePairs /\ lib.fmt = "WEBP" /\ Val(lib.src).bytes # None)
        => Val(lib.ret) = ThumbnailSet(Val(Val(lib.src).bytes))

C12_Witness ==
    /\ IDone /\ icall.operation = "thumbnails" /\ icall.data = Some("jpgRot")
    /\ icall.kind = "return" /\ Len(icall.ret.items) = 4
    /\ icall.ret.items[4].width = 512

\* C13: thumbnail_set is all-or-nothing.  When the fit or the encoding of any
\* one requested size fails, or the placeholder step fails, the call ends
\* with a raised error; a call that ends with an error returns nothing, also
\* when items had been built before the failure; a call that returns has
\* every requested item.
C13_AllOrNothing ==
    /\ (LDone /\ lib.fn = "thumbnail_set")
        => LET s == lib
               badSize == \E i \in 1..Len(s.sizes) :
                             s.sizes[i][1] <= 0 \/ s.sizes[i][2] <= 0
               badFmt == Len(s.sizes) > 0 /\ ~Saveable(s.fmt)
               badPlaceholder == s.base # None /\ PlaceholderRaises(Val(s.base))
           IN /\ (badSize \/ badFmt \/ badPlaceholder) => s.kind = "raise"
              /\ s.kind = "raise" => s.ret = None
              /\ s.kind = "return" => Len(Val(s.ret).items) = Len(s.sizes)
    /\ (IDone /\ icall.operation = "thumbnails" /\ icall.kind = "raise")
        => icall.ret = None

\* the second of three sizes fails after the first item was built
C13_Witness ==
    /\ LDone /\ lib.fn = "thumbnail_set"
    /\ lib.sizes = << <<64, 64>>, <<0, 16>>, <<32, 16>> >>
    /\ Len(lib.items) = 1
    /\ lib.kind = "raise" /\ lib.ret = None

\* C14: with the text-recognition capability absent at import, every ocr call
\* whose source resolved to bytes returns {ok: false, text: "", error} with a
\* non-empty error and never raises, whether or not the bytes decode as an
\* image (they are not decoded at all).
C14_OcrUnavailable ==
    (IDone /\ icall.operation = "ocr" /\ ~env.tess /\ icall.data # None)
    => /\ icall.kind = "return"
       /\ icall.ret.ok = FALSE /\ icall.ret.text = "" /\ icall.ret.error # ""
       /\ "decode" \notin icall.effects

C14_Witness ==
    /\ IDone /\ icall.operation = "ocr" /\ ~env.tess
    /\ icall.data = Some("junk")
    /\ icall.kind = "return" /\ ~icall.ret.ok /\ icall.ret.text = ""

\* the two shapes of an extract_frame answer
FrameAnswer(r) == \/ (r.ok /\ r.thumbnail # None /\ r.error = "")
                  \/ (~r.ok /\ r.thumbnail = None /\ r.error # "")

\* C15, as stated: an extract_frame call whose source is on storage always
\* ends by returning {ok: true, thumbnail} or {ok: false, error}, never by
\* raising, also when opening the clip or reading the frame fails.
C15_AlwaysData ==
    \A c \in DOMAIN vcall :
        LET s == vcall[c] IN
        (VDone(c) /\ s.operation = "extract_frame" /\ s.file_path # None)
        => (s.kind = "return" /\ FrameAnswer(s.ret))

\* C15, amended: an extract_frame call whose source is on storage returns
\* {ok: false, error} without raising when the rich media library is
\* unavailable; with the library available it returns {ok: true, thumbnail}
\* when the open, the frame read and the encoding all succeed, and raises
\* the error of whichever of them fails (an unreadable clip always raises).
C15_DataOrRaise ==
    \A c \in DOMAIN vcall :
        LET s == vcall[c] IN
        (VDone(c) /\ s.operation = "extract_frame" /\ s.file_path # None)
        => /\ s.kind = "return" => FrameAnswer(s.ret)
           /\ ~env.moviepy => (s.kind = "return" /\ ~s.ret.ok)
           /\ env.moviepy =>
                \/ /\ s.kind = "return" /\ s.ret.ok
                   /\ VDecodable(SrcBytes(s)) /\ env.pillow
                \/ /\ s.kind = "raise" /\ s.error \in {"OSError", "RuntimeError"}
           /\ (env.moviepy /\ (~VDecodable(SrcBytes(s)) \/ ~env.pillow))
                => s.kind = "raise"

\* the library is there and the bytes are not a clip: the open raises
C15_Witness ==
    \E c \in DOMAIN vcall :
        LET s == vcall[c] IN
        /\ VDone(c) /\ s.operation = "extract_frame" /\ env.moviepy
        /\ s.data = Some("junk") /\ s.file_path # None
        /\ s.kind = "raise" /\ s.error = "OSError"

\* C16: when an extract_frame call or a video inspect call has ended, by a
\* return or by a raised error, no clip handle it opened is still open.
C16_HandlesClosed ==
    \A c \in DOMAIN vcall : VDone(c) => vcall[c].clip # "open"

\* C17: _fetch_bytes_from_url returns a buffer only when the whole remote body
\* is at most max_bytes long, and then the buffer is the whole body; a body of
\* exactly max_bytes is accepted.  A longer body ends the call with an error
\* at the first read that takes the running total over max_bytes, so the
\* total never exceeds max_bytes while the loop goes on and no prefix is
\* returned.  An HTTP or URL error ends the call with a raised error before
\* any read, a broken connection with a raised error too.  video_ops sees
\* the same outcomes with the default ceiling.
C17_FetchCeiling ==
    LET s == lib
        u == s.url
        whole == RemoteStatus(u) = "ok" /\ RemoteCut(u) = None
    IN
    /\ (s.fn = "_fetch_bytes_from_url" /\ s.pc = "f_read")
        => /\ s.total <= s.max_bytes /\ s.total <= RemoteLen(u)
           /\ s.total = s.nchunks * ChunkSize \/ s.total = RemoteLen(u)
    /\ (s.fn = "_fetch_bytes_from_url" /\ LDone)
        => /\ s.kind = "return"
                <=> (whole /\ RemoteLen(u) <= s.max_bytes)
           /\ s.kind = "return"
                => (Val(s.ret).len = RemoteLen(u) /\ s.total = RemoteLen(u))
           /\ s.kind = "raise" => s.ret = None
           /\ (whole /\ RemoteLen(u) > s.max_bytes)
                => /\ s.error = "TransferTooLarge"
                   /\ s.total > s.max_bytes
                   /\ s.nchunks = (s.max_bytes \div ChunkSize) + 1
                   /\ s.total <= s.nchunks * ChunkSize
           /\ RemoteStatus(u) # "ok"
                => (s.error = "TransferFailed" /\ s.nchunks = 0)
           /\ (RemoteStatus(u) = "ok" /\ RemoteCut(u) # None
                /\ RemoteLen(u) <= s.max_bytes) => s.kind = "raise"
           /\ (u \in Urls /\ s.max_bytes = DefaultMaxBytes)
                => /\ FetchOk(u) <=> s.kind = "return"
                   /\ FetchOk(u) => Val(s.ret).len = Len8(FetchBytes(u))
                   /\ ~FetchOk(u) => s.error = FetchError(u)
    /\ \A c \in DOMAIN vcall :
         (VDone(c) /\ "fetch" \in vcall[c].effects)
         => LET url == Val(vcall[c].video_url) IN
            IF RemoteStatus(url) = "ok" /\ RemoteLen(url) <= DefaultMaxBytes
            THEN vcall[c].data = Some(FetchBytes(url))
            ELSE /\ vcall[c].kind = "raise" /\ vcall[c].data = None
                 /\ vcall[c].error \in {"TransferTooLarge", "TransferFailed"}

\* a body of exactly the default ceiling is read to its end and returned
C17_Witness ==
    /\ LDone /\ lib.fn = "_fetch_bytes_from_url"
    /\ lib.url = "u_exact" /\ lib.max_bytes = DefaultMaxBytes
    /\ lib.kind = "return" /\ Val(lib.ret).len = DefaultMaxBytes

\* the last operation applied to the pixels of an encoded image
LastPx(e) == e.px[Len(e.px)]

\* C18: a transform that encodes an image with an alpha channel as JPEG (fmt
\* JPEG or JPG) composites it onto solid white before encoding, whatever
\* keep_alpha is.
C18_AlphaOnWhite ==
    LET s == icall IN
    (/\ IDone /\ s.operation = "transform" /\ s.kind = "return"
     /\ s.ret.format \in {"JPEG", "JPG"}
     /\ AutoOrient(BytesToImage(Val(s.data))).mode \in {"RGBA", "LA"})
    => /\ s.ret.image.format = "JPEG"
       /\ LastPx(s.ret.image) = "on_white"

\* C19: a transform ends the same way, by a return or by an error, whatever
\* quality is; the quality in the parameters of the encoder call is the
\* given one clamped into [1,95] for JPEG/JPG and into [1,100] for
\* WEBP/JP2/JPEG2000, absent when none was given, and absent for every other
\* target format.
C19_QualityClamped ==
    LET s == icall
        p == Val(s.data)
        out == Upper(IF s.fmt # None THEN Val(s.fmt) ELSE "PNG")
        hi == IF out \in {"JPEG", "JPG"} THEN 95 ELSE 100
        q == Val(s.quality)
    IN
    (/\ IDone /\ s.operation = "transform" /\ s.op # None /\ s.op # Some("")
     /\ s.data # None /\ ImgDecodable(p)
     /\ (s.background = None \/ Len(Val(s.background)) = 3))
    => /\ s.kind = TransformImage(p, Val(s.op), s.width, s.height, s.fmt, None,
                                 s.keep_alpha, s.background).kind
       /\ (s.op = Some("convert") /\ Saveable(out)) => s.kind = "return"
       /\ s.enc # None =>
            IF out \in {"JPEG", "JPG", "WEBP", "JP2", "JPEG2000"} /\ s.quality # None
            THEN /\ Val(s.enc).quality # None
                 /\ LET v == Val(Val(s.enc).quality) IN
                    /\ 1 <= v /\ v <= hi
                    /\ (1 <= q /\ q <= hi) => v = q
                    /\ q < 1 => v = 1
                    /\ q > hi => v = hi
            ELSE Val(s.enc).quality = None

\* quality 101 on a JPEG target reaches the encoder as 95
C19_Witness ==
    /\ IDone /\ icall.operation = "transform" /\ icall.op = Some("convert")
    /\ icall.fmt = Some("jpeg") /\ icall.quality = Some(101)
    /\ icall.kind = "return" /\ Val(icall.enc).quality = Some(95)

\* a call between the write of its temp file and the end of its finally clause
Probing(s) == s.pc \in {"insp_try", "insp_frame", "insp_close", "insp_finally",
                        "ef_try", "ef_frame", "ef_encode", "ef_close", "ef_finally"}

\* a call that holds a temp file: from its creation to the end of the finally
Holding(s) == s.data # None /\ (s.pc = "tmp_write" \/ Probing(s))

\* What a video_ops call on the bytes p ends with when it runs alone in the
\* capability configuration e: the infos the probe can build,
SoloInfos(p, e) ==
    LET base == [NoInfo EXCEPT !.size_bytes = Len8(p), !.md5 = Some(Md5Bytes(p))]
        dims == [base EXCEPT !.width = Some(VWidth(p)), !.height = Some(VHeight(p)),
                             !.duration = Some(VDuration(p)), !.fps = Some(VFps(p))]
        frame == Some(<<"data:image/png", p, IF VDuration(p) > 5 THEN 5 ELSE 0>>)
    IN
    IF e.moviepy
    THEN IF VDecodable(p)
         THEN {[dims EXCEPT !.format = Some("mp4")]}
                \cup (IF e.pillow
                      THEN {[dims EXCEPT !.format = Some("mp4"),
                                         !.thumbnail_data_url = frame]}
                      ELSE {})
         ELSE {}
    ELSE IF e.ffprobe /\ VDecodable(p)
    THEN {[dims EXCEPT !.format = Some("h264")]}
    ELSE {base}

\* the values it can return,
SoloReturns(s, p, e) ==
    CASE s.operation = "inspect" -> SoloInfos(p, e)
      [] s.operation = "validate" ->
           {[ok |-> Len(VideoReasons(i, s.max_duration, s.max_megapixels)) = 0,
             reasons |-> VideoReasons(i, s.max_duration, s.max_megapixels),
             info |-> i] : i \in SoloInfos(p, e)}
      [] s.operation = "thumbnails" ->
           {[thumbnail |-> i.thumbnail_data_url, info |-> i] : i \in SoloInfos(p, e)}
      [] OTHER ->
           IF ~e.moviepy
           THEN {[ok |-> FALSE, thumbnail |-> None, error |-> "moviepy not installed"]}
           ELSE IF VDecodable(p) /\ e.pillow
           THEN {[ok |-> TRUE,
                  thumbnail |-> Some(<<"data:image/png", p,
                                       IF VDuration(p) > 5 THEN 5 ELSE 0>>),
                  error |-> ""]}
           ELSE {}

\* and the errors it can raise: a failed temp-file write, a failed open or
\* frame read, and for extract_frame a failed encoding
SoloErrors(s, p, e) ==
    {"OSError"} \cup (IF s.operation = "extract_frame" /\ e.moviepy /\ VDecodable(p)
                         /\ ~e.pillow
                      THEN {"RuntimeError"} ELSE {})

\* C20: video_ops calls on byte-buffer sources that run interleaved each have
\* their own temp file: two calls that hold a temp file at the same time hold
\* different files, a call that holds one finds it on storage, holding its
\* own bytes while it is probed (no other call deleted or overwrote it), and
\* a call that has ended ended as the same call can end when it runs alone.
C20_IndependentCalls ==
    /\ \A c, d \in DOMAIN vcall :
         (c # d /\ Holding(vcall[c]) /\ Holding(vcall[d]))
         => vcall[c].tmp # vcall[d].tmp
    /\ \A c \in DOMAIN vcall :
         LET s == vcall[c] IN
         /\ Holding(s) => (s.created = {Val(s.tmp)} /\ Exists(Val(s.tmp)))
         /\ (Probing(s) /\ s.data # None)
              => /\ s.created = {s.file_path}
                 /\ Exists(s.file_path) /\ fs[s.file_path] = Val(s.data)
         /\ (VDone(c) /\ s.data # None)
              => /\ Cardinality(s.created) <= 1
                 /\ IF s.kind = "raise"
                    THEN s.error \in SoloErrors(s, Val(s.data), env)
                    ELSE s.ret \in SoloReturns(s, Val(s.data), env)

\* one call has ended and removed its file while the other, which created a
\* different file, is still reading it
C20_Witness ==
    /\ DOMAIN vcall = ConcCalls
    /\ VDone(1) /\ vcall[1].kind = "return"
    /\ vcall[1].created = {<<"tmp", 1, "mp4">>} /\ ~Exists(<<"tmp", 1, "mp4">>)
    /\ Probing(vcall[2]) /\ vcall[2].data # None
    /\ vcall[2].file_path = <<"tmp", 2, "mp4">> /\ Exists(<<"tmp", 2, "mp4">>)

OrientedPx(e) == Len(e.px) >= 3 /\ e.px[3] = "transposed"

\* C22: for a source whose EXIF orientation asks for a rotation or a flip,
\* every value an image operation returns comes from the corrected image:
\* the dimensions of inspect, the transformed image, every thumbnail and
\* every placeholder_data_url, the one of inspect included.
C22_OrientedFirst ==
    LET s == icall
        p == Val(s.data)
    IN
    (/\ IDone /\ s.kind = "return" /\ s.data # None /\ ImgDecodable(p)
     /\ ImgOrientation(p) \in 2..8)
    => /\ s.operation = "inspect"
            => /\ s.ret.info.width = OrientedW(p) /\ s.ret.info.height = OrientedH(p)
               /\ OrientedPx(s.ret.info.md5[2])
               /\ OrientedPx(s.ret.placeholder_data_url[2])
       /\ s.operation = "validate"
            => (s.ret.info.width = OrientedW(p) /\ s.ret.info.height = OrientedH(p))
       /\ s.operation = "transform" => OrientedPx(s.ret.image)
       /\ s.operation = "thumbnails"
            => /\ \A i \in 1..Len(s.ret.items) : OrientedPx(s.ret.items[i].data_url[3])
               /\ OrientedPx(s.ret.placeholder_data_url[2])

HexVal(d) == CHOOSE v \in 0..15 : HexDigits[v + 1] = d
\* bit i (1 = the most significant) of a hex string of 4 * Len(hex) bits
HexBit(hex, i) ==
    LET v == HexVal(hex[(i - 1) \div 4 + 1])
        r == (i - 1) % 4
    IN (v \div (IF r = 0 THEN 8 ELSE IF r = 1 THEN 4 ELSE IF r = 2 THEN 2 ELSE 1)) % 2
AhashReturned == LDone /\ lib.fn = "_ahash" /\ lib.kind = "return"

\* C23: the hash _ahash returns for an 8x8 grid is a hex string of exactly 16
\* digits whose bit i (row by row, most significant first) is 1 exactly when
\* cell i is greater than the mean of the 64 cells; a uniform grid hashes to
\* sixteen zeros and no grid hashes to all ones.
C23_AhashBits ==
    AhashReturned =>
      LET g == lib.grid  hex == Val(lib.ret) IN
      /\ Len(hex) = 16
      /\ \A k \in 1..Len(hex) : \E v \in 1..16 : hex[k] = HexDigits[v]
      /\ \A i \in 1..64 : (HexBit(hex, i) = 1) <=> (g[i] * 64 > SumTo(g, 64))
      /\ (\A i \in 1..64 : g[i] = g[1]) => hex = [k \in 1..16 |-> "0"]
      /\ hex # [k \in 1..16 |-> "f"]

\* a grid with a bright last cell only: fifteen leading zeros are kept
C23_Witness ==
    /\ AhashReturned
    /\ lib.grid = TwoLevel(1, 255, {64})
    /\ Val(lib.ret) = [k \in 1..16 |-> IF k = 16 THEN "1" ELSE "0"]

\* the call was given a path and no byte source
PathOnly(s) == /\ s.pc # "idle" /\ ~Truthy(s.video_b64) /\ s.video_url = None
               /\ Truthy(s.path)

\* C24: a file supplied by local path is never deleted by the video
\* pipeline: during and after every call whose only source is a path, ended
\* by a return or by an error, the file that was at the path is still there
\* with its content.
C24_PathFileKept ==
    \A c \in Calls :
      LET s == vcall[c] IN
      (PathOnly(s) /\ s.path \in DOMAIN InitFs)
        => (Exists(s.path) /\ fs[s.path] = InitFs[s.path])

\* a failed call (the file at the path is no video) that ran its finally clause
C24_Witness ==
    LET s == vcall[1] IN
    /\ PathOnly(s) /\ VDone(1) /\ s.path = UserJunk
    /\ s.kind = "raise" /\ s.error = "OSError" /\ s.operation = "inspect"
    /\ Exists(UserJunk)

\* the call was given a byte source (video_b64 or video_url)
ByteSource(s) == Truthy(s.video_b64) \/ s.video_url # None
\* temp files of the call that are on storage now
TempsNow(s) == {n \in s.created : Exists(n)}
\* true of every call at every moment: never more than one temp file made, none
\* for a path-only source, none for an operation that is not supported
TempBounds(s) ==
    /\ Cardinality(s.created) <= 1
    /\ Cardinality(TempsNow(s)) <= 1
    /\ PathOnly(s) => s.created = {}
    /\ (s.pc # "idle" /\ s.operation \notin VideoOperations) => s.created = {}

\* C25 as stated: a call creates at most one temp file -- exactly one when
\* the source is video_b64 or video_url and the operation is one of the four
\* supported, none when the source is path only, none when the operation is
\* unknown -- and two temp files of a call never exist together.
C25_OneTempFile ==
    \A c \in Calls :
      LET s == vcall[c] IN
      /\ TempBounds(s)
      /\ (VDone(c) /\ ByteSource(s) /\ s.operation \in VideoOperations)
           => Cardinality(s.created) = 1

\* C25, amended: exactly one temp file when the bytes of the byte source were
\* obtained (the base64 text decoded, the URL fetched) and the operation is
\* one of the four supported; none when the decoding or the fetch failed; the
\* rest as stated.
C25_OneTempFileWhenResolved ==
    \A c \in Calls :
      LET s == vcall[c] IN
      /\ TempBounds(s)
      /\ (VDone(c) /\ s.operation \in VideoOperations)
           => /\ s.data # None => Cardinality(s.created) = 1
              /\ s.data = None => s.created = {}

\* an extract_frame call on fetched bytes made its one temp file and removed it
C25_Witness ==
    LET s == vcall[1] IN
    /\ VDone(1) /\ s.operation = "extract_frame" /\ s.video_url = Some("u_clipA")
    /\ ~Truthy(s.video_b64) /\ s.data # None
    /\ Cardinality(s.created) = 1 /\ TempsNow(s) = {}

\* the source check and the resolution of the byte source are behind the call
Resolved(s) == s.pc \notin {"idle", "v_resolve", "i_resolve"}
\* the text after the comma of a data URL, or the text itself
B64Text(b) == IF StartsWithData(b) THEN AfterComma(b) ELSE b

\* C26: with several sources supplied together the entry points pick one by
\* fixed precedence instead of failing the source check: image_ops decodes
\* image_b64 and never opens path; video_ops decodes video_b64 and then
\* neither fetches video_url nor reads path, and without video_b64 fetches
\* video_url and never reads path.  The call goes on with the bytes of the
\* source picked, or ends with the error of decoding or fetching that source.
C26_SourcePrecedence ==
    /\ LET s == icall IN
       (Resolved(s) /\ Truthy(s.image_b64) /\ Truthy(s.path))
         => /\ "b64decode" \in s.effects /\ "read_path" \notin s.effects
            /\ s.data = None => (s.kind = "raise" /\ s.error = "DecodeError")
            /\ s.data # None => s.data = Some(B64Decode(B64Text(s.image_b64)))
    /\ \A c \in Calls :
         LET s == vcall[c] IN
         /\ (Resolved(s) /\ Truthy(s.video_b64) /\ (s.video_url # None \/ Truthy(s.path)))
              => /\ "b64decode" \in s.effects
                 /\ "fetch" \notin s.effects /\ "read_path" \notin s.effects
                 /\ s.data = None => (s.kind = "raise" /\ s.error = "DecodeError")
                 /\ s.data # None => s.data = Some(B64Decode(B64Text(s.video_b64)))
                 /\ Truthy(s.path) => s.file_path # s.path
         /\ (Resolved(s) /\ ~Truthy(s.video_b64) /\ s.video_url # None /\ Truthy(s.path))
              => /\ "fetch" \in s.effects
                 /\ "b64decode" \notin s.effects /\ "read_path" \notin s.effects
                 /\ s.data = None
                      => (s.kind = "raise" /\ s.error = FetchError(Val(s.video_url)))
                 /\ s.data # None => s.data = Some(FetchBytes(Val(s.video_url)))
                 /\ Truthy(s.path) => s.file_path # s.path

\* all three video sources given: the answer describes the video_b64 bytes
C26_Witness ==
    LET s == vcall[1] IN
    /\ VDone(1) /\ s.kind = "return" /\ s.operation = "inspect"
    /\ s.video_b64 = <<"b64", "clipB">> /\ s.video_url = Some("u_clipA")
    /\ s.path = UserJunk
    /\ s.ret.md5 = Some(Md5Bytes("clipB"))

\* the five fields the probe fills
ProbeFields(i) == [width |-> i.width, height |-> i.height, duration |-> i.duration,
                   fps |-> i.fps, format |-> i.format]
NoProbeFields == [width |-> None, height |-> None, duration |-> None, fps |-> None,
                  format |-> None]
\* the bytes of the source of a call that reached the probe
RawBytes(s) == IF s.data # None THEN Val(s.data) ELSE InitFs[s.path]
\* the frame rate text is num/den with numbers and a denominator that is not 0
RateWellFormed(r) == /\ r # None /\ Len(Val(r)) = 2
                     /\ Val(r)[1].ok /\ Val(r)[2].ok /\ Val(r)[2].val # 0

VValidated(c) == VDone(c) /\ vcall[c].operation = "validate" /\ vcall[c].kind = "return"
Missing(x) == x = None \/ Val(x) = 0
RuleSet(reasons) == {reasons[k].rule : k \in 1..Len(reasons)}

\* C27: video validate skips a check whose measure is unknown: with duration
\* unset there is no duration reason whatever max_duration is, with width or
\* height unset or zero there is no size reason whatever max_megapixels is,
\* and a video that could not be probed at all validates with ok = TRUE and
\* no reasons.
C27_UnknownSkipped ==
    \A c \in Calls :
      LET s == vcall[c] IN
      VValidated(c) =>
        LET i == s.ret.info IN
        /\ i.duration = None => "duration" \notin RuleSet(s.ret.reasons)
        /\ (Missing(i.width) \/ Missing(i.height)) => "size" \notin RuleSet(s.ret.reasons)
        /\ Unset(i) => (s.ret.ok = TRUE /\ s.ret.reasons = <<>>)
        /\ s.ret.ok = (s.ret.reasons = <<>>)

\* a video nothing could probe, validated against both ceilings
C27_Witness ==
    LET s == vcall[1] IN
    /\ VValidated(1) /\ Unset(s.ret.info)
    /\ s.max_duration = Some(30) /\ s.max_megapixels = Some(30)
    /\ s.ret.ok = TRUE /\ s.ret.reasons = <<>>

\* the rich library opened the clip of an inspecting call, and the frame step
\* is behind it without a thumbnail: the read or the encoding failed
FrameFailed(s) ==
    /\ s.operation \in InspectFamily /\ s.clip # "none"
    /\ s.pc # "insp_frame" /\ s.info.thumbnail_data_url = None
\* the info a call returned
ReturnedInfo(s) == IF s.operation = "inspect" THEN s.ret ELSE s.ret.info

\* C28: in video inspect through the rich media library a failed frame read
\* or frame encoding does not fail the call and keeps the metadata: the
\* result has the width, height, duration, fps and format read from the clip
\* and no thumbnail, the clip is closed and the temp file removed.
C28_FrameFailureKept ==
    \A c \in Calls :
      LET s == vcall[c]
          b == RawBytes(s)
      IN
      FrameFailed(s) =>
        /\ s.kind # "raise" /\ s.exc = ""
        /\ ProbeFields(s.info) =
             [width |-> Some(VWidth(b)), height |-> Some(VHeight(b)),
              duration |-> Some(VDuration(b)), fps |-> Some(VFps(b)),
              format |-> ExtOf(s.file_path)]
        /\ VDone(c) =>
             /\ s.kind = "return" /\ ReturnedInfo(s) = s.info
             /\ s.operation = "thumbnails" => s.ret.thumbnail = None
             /\ s.clip = "closed"
             /\ TempsNow(s) = {}

\* the frame was read but Pillow is missing, on bytes that needed a temp file
C28_Witness ==
    LET s == vcall[1] IN
    /\ VDone(1) /\ FrameFailed(s) /\ s.operation = "inspect"
    /\ env.moviepy /\ ~env.pillow
    /\ s.video_b64 = <<"b64", "clipA">>
    /\ s.ret.width = Some(640) /\ s.ret.thumbnail_data_url = None
    /\ s.created # {} /\ TempsNow(s) = {}

\* the ops transform_image has a branch or a comment for
KnownOps == GeometricOps \cup {"strip_metadata", "convert"}
\* a transform call of image_ops that obtained its bytes and ended
Transformed == IDone /\ icall.operation = "transform" /\ icall.data # None

\* C30: transform_image does not reject an op it does not know: the op is not
\* refused, width and height are ignored, and the call ends as op "convert"
\* ends for the same bytes, fmt, quality and keep_alpha: with the same value,
\* of the size of the corrected source, or with the same error of the decoder
\* or the encoder.  Only a missing or empty op is rejected, by image_ops,
\* before the image is decoded.
C30_UnknownOpConverts ==
    LET s == icall  p == Val(s.data) IN
    /\ (Transformed /\ Truthy(s.op) /\ Val(s.op) \notin KnownOps) =>
         IF ~ImgDecodable(p) THEN s.kind = "raise" /\ s.error = "DecodeError"
         ELSE LET conv == TransformImage(p, "convert", None, None, s.fmt, s.quality,
                                         s.keep_alpha, None)
              IN
              /\ ~(s.kind = "raise" /\ s.error \in {"InvalidInput", "UnknownOperation"})
              /\ s.kind = conv.kind
              /\ s.kind = "raise" => s.error = conv.error
              /\ s.kind = "return" =>
                   /\ s.ret = Val(conv.value)
                   /\ s.ret.width = OrientedW(p) /\ s.ret.height = OrientedH(p)
    /\ (Transformed /\ ~Truthy(s.op)) =>
         /\ s.kind = "raise" /\ s.error = "InvalidInput"
         /\ "decode" \notin s.effects /\ s.enc = None

\* op "sharpen" with a 2x2 target on the 500x500 PNG: re-encoded at full size
C30_Witness ==
    LET s == icall IN
    /\ Transformed /\ s.op = Some("sharpen") /\ s.kind = "return"
    /\ s.width = Some(2) /\ s.height = Some(2)
    /\ s.data = Some("png500") /\ s.fmt = Some("webp") /\ s.quality = Some(101)
    /\ s.ret.width = 500 /\ s.ret.height = 500 /\ s.ret.format = "WEBP"

====
